---- MODULE Spec2Model ----
(***************************************************************************)
(* Rotation & synchronisation engine of Pam-MultiVendor-Lab.               *)
(*                                                                         *)
(*   RotationEventHandler  scripts/aws/rotation_handler.py                 *)
(*   SecretSyncManager     src/integrations/secret_sync.py                 *)
(*   AWSSecretsConnector   src/integrations/aws_secrets_connector.py       *)
(*                                                                         *)
(* Secret names are sequences of their hyphen-separated segments           *)
(* ("db-admin" is <<"db", "admin">>), so that the ARN parsing of the       *)
(* handler is computed as the code computes it.  Secret values are small   *)
(* integers.  Wall-clock time is the counter now.                          *)
(***************************************************************************)
EXTENDS Integers, Sequences, FiniteSets, TLC

\* ------------------------------------------------------------------ bounds
MaxTime == 1
MaxInterval == 2
MaxHistory == 2
MaxInstant == 3
MaxAudit == 2
MaxBatch == 2
MaxRecorded == 6
MaxAgeDays == 400
MaxFields == 2

\* secret values (0 stands for "no value") and request tokens (0: none)
Values == {1, 2}
Tokens == {1, 2}
Times == 0..MaxTime
Intervals == 1..MaxInterval

\* ------------------------------------------------------- names and ARNs
SecretNames == {<<"db">>, <<"db", "admin">>}

\* A SecretId of an event: a plain name, or the ARN
\* arn:aws:secretsmanager:region:account:secret:<name>-<6 random characters>;
\* segs are the hyphen-separated segments of the text after ':secret:'.
PlainId(n) == [arn |-> FALSE, segs |-> n]
ArnId(n) == [arn |-> TRUE, segs |-> n \o <<"AbCdEf">>]
SecretIds == {PlainId(n) : n \in SecretNames} \cup {ArnId(n) : n \in SecretNames}

\* the secret a SecretId identifies: the ARN without its random suffix
SecretOf(id) ==
  IF id.arn THEN SubSeq(id.segs, 1, Len(id.segs) - 1) ELSE id.segs

\* arn.split(':secret:')[1].split('-')[0] when ':secret:' is in the id
extract_secret_name_from_arn(id) ==
  IF id.arn THEN <<Head(id.segs)>> ELSE id.segs

\* ------------------------------------------------------------ AWS store
NoSecret == [absent |-> TRUE]

\* AWSSecretsConnector._mock_secrets[name]: the active value and the date the
\* secret was created (last_changed, description and tags are read by
\* list_secrets only)
AwsRecord(v, c) == [secret_value |-> v, created |-> c]

\* get_secret raises ValueError (mock) / ResourceNotFound (boto3) on a name
\* the store does not hold
aws_get_raises(store, n) == store[n] = NoSecret

\* update_secret: overwrites the value held under the name, in place
mock_update_secret(store, n, v) ==
  [store EXCEPT ![n] = AwsRecord(v, store[n].created)]

\* create_secret: a new record under the name
mock_create_secret(store, n, v, t) ==
  [store EXCEPT ![n] = AwsRecord(v, t)]

\* --------------------------------------------------------------- state
VARIABLES
  mock_mode,           \* RotationEventHandler.mock_mode
  aws_secrets,         \* the store behind RotationEventHandler.aws_connector
  rotation_history,    \* RotationEventHandler.rotation_history
  rotation_schedules,  \* RotationEventHandler.rotation_schedules
  now,                 \* datetime.now(timezone.utc)
  last,                \* the last call made on the handler and what it returned
  watched,             \* the secret whose rotation the caller below drives
  rot,                 \* where the caller of the watched secret stands in the protocol
  handler_vault_client,  \* RotationEventHandler.vault_client is set (not None)
  status_last,         \* what the last get_rotation_status call returned
  rotate_last,         \* the last rotate_vault_secret call: its arguments, what
                       \* its calls on Vault and AWS did, the result it returned
  target_updated       \* what _update_target_system returned in the last
                       \* setSecret step: "True", "False", or "not called"

rotVars == <<mock_mode, aws_secrets, rotation_history, rotation_schedules, now,
             last, watched, rot, handler_vault_client, status_last, rotate_last,
             target_updated>>

VARIABLES
  vault_client,   \* how SecretSyncManager reads Vault: "none" (mock_mode, or no
                  \* client), or a client whose read_secret_version response
                  \* carries metadata.created_time at its top level ("flat") or
                  \* not ("nested", the hvac response)
  vault_secrets,  \* the KV v2 store behind vault_client
  sync_aws,       \* the store behind SecretSyncManager.aws_connector
  audit_log,      \* SecretSyncManager.audit_log
  sync_last       \* the last sync_secret call: its arguments, the SyncResult
                  \* it returned and the number of create/update/write calls
                  \* it made
VARIABLE
  batch_last      \* the last batch_sync call: its arguments and the list of
                  \* SyncResults it returned

VARIABLE
  unavailable     \* the stores of the SecretSyncManager that answer no call:
                  \* every call on them raises an error other than not-found

VARIABLES
  sync_status,    \* what the last get_sync_status call returned
  audit_file      \* the file the last export_audit_log call wrote

syncVars == <<vault_client, vault_secrets, sync_aws, audit_log, sync_last,
              batch_last, unavailable, sync_status, audit_file>>

VARIABLE
  tool_call       \* the last call of one of the tools that keep no state (the
                  \* health score, the migration mappings): its arguments,
                  \* and what it returned once it has returned

toolVars == <<tool_call>>

vars == <<rotVars, syncVars, toolVars>>

\* no tool has been called
NoToolCall == [op |-> "none"]
ToolIdle == tool_call = NoToolCall

NoSchedule == [absent |-> TRUE]
Steps == {"createSecret", "setSecret", "testSecret", "finishSecret"}
EventSteps == Steps \cup {"deleteSecret"}

\* RotationResult, without its wall-clock fields
RotationResult(n, st, msg, err) ==
  [secret_name |-> n, status |-> st, message |-> msg, error |-> err]

\* The position of the watched secret's caller in the rotation protocol: the
\* request token of the rotation the last accepted createSecret started, the
\* active value the store held before that createSecret, and the stage: the last
\* step accepted in order, "failed" once the rotation's testSecret failed in
\* order (after createSecret and setSecret), "halted" once a testSecret of the
\* rotation failed out of order.
NoRotation == [tok |-> 0, stage |-> "none", pre |-> 0]

\* is step the next step of the rotation r, for request token t
InOrder(r, step, t) ==
  CASE step = "createSecret" -> TRUE
    [] step = "setSecret" -> r.tok = t /\ r.stage = "createSecret"
    [] step = "testSecret" -> r.tok = t /\ r.stage = "setSecret"
    [] step = "finishSecret" -> r.tok = t /\ r.stage = "testSecret"
    [] OTHER -> FALSE

\* the position after the handler answered code to (step, t); pre is the
\* active value the store held when the event arrived
Observe(r, step, t, code, pre) ==
  IF step = "createSecret" /\ code = 200
    THEN [tok |-> t, stage |-> "createSecret", pre |-> pre]
  ELSE IF step = "testSecret" /\ code = 500 /\ r.tok = t
    THEN [r EXCEPT !.stage = IF InOrder(r, step, t) THEN "failed" ELSE "halted"]
  ELSE IF code = 200 /\ InOrder(r, step, t)
    THEN [r EXCEPT !.stage = step]
  ELSE r

ActiveValue(store, n) == IF store[n] = NoSecret THEN 0 ELSE store[n].secret_value

\* what a call returned: the secret the call was made for, the statusCode (0
\* for the calls that return no status code), and for an event of the watched
\* secret whether its step came in order
Response(op, secret, t, code, inorder) ==
  [op |-> op, secret |-> secret, token |-> t, code |-> code, inorder |-> inorder]

\* ---------------------------------------------------------------- Init
\* no get_rotation_status call yet
NoStatus == [absent |-> TRUE]

\* no rotate_vault_secret call has been made
NoRotateYet == [absent |-> TRUE]

RotationInit ==
  /\ mock_mode \in BOOLEAN
  /\ aws_secrets \in [SecretNames -> {NoSecret} \cup {AwsRecord(v, 0) : v \in Values}]
  /\ rotation_history = <<>>
  /\ rotation_schedules = [n \in SecretNames |-> NoSchedule]
  /\ now = 0
  /\ last = Response("init", <<>>, 0, 0, FALSE)
  /\ watched \in SecretNames
  /\ rot = NoRotation
  /\ status_last = NoStatus
  /\ rotate_last = NoRotateYet
  /\ target_updated = "not called"

\* ----------------------------------------------- rotation event handler
\* RotationEvent: the secret the event's SecretId identifies, and the
\* secret_name the handler works on
RotationEvent(id) ==
  [secret |-> SecretOf(id), secret_name |-> extract_secret_name_from_arn(id)]

Events == {RotationEvent(id) : id \in SecretIds}
EventsOf(secret) == {e \in Events : e.secret = secret}

\* what every event handler leaves behind: the response and the caller's position
Answered(step, e, t, code) ==
  /\ last' = Response(step, e.secret, t, code,
                      e.secret = watched /\ InOrder(rot, step, t))
  /\ rot' = IF e.secret = watched
              THEN Observe(rot, step, t, code, ActiveValue(aws_secrets, watched))
              ELSE rot

\* _generate_secret_value: a fresh random password
generate_secret_value == Values

\* a createSecret handler that answers 200 when the store has no such secret
handle_create_secret_unguarded(e, t) ==
  IF mock_mode \/ aws_get_raises(aws_secrets, e.secret_name)
    THEN /\ Answered("createSecret", e, t, 200)
         /\ UNCHANGED <<aws_secrets, rotation_history, rotation_schedules>>
  ELSE \E new_secret_value \in generate_secret_value :
         /\ aws_secrets' = mock_update_secret(aws_secrets, e.secret_name, new_secret_value)
         /\ Answered("createSecret", e, t, 200)
         /\ UNCHANGED <<rotation_history, rotation_schedules>>

\* _handle_create_secret
handle_create_secret(e, t) ==
  IF mock_mode
    THEN /\ Answered("createSecret", e, t, 200)
         /\ UNCHANGED <<aws_secrets, rotation_history, rotation_schedules>>
  ELSE IF aws_get_raises(aws_secrets, e.secret_name)
    THEN /\ Answered("createSecret", e, t, 500)
         /\ UNCHANGED <<aws_secrets, rotation_history, rotation_schedules>>
  ELSE \E new_secret_value \in generate_secret_value :
         /\ aws_secrets' = mock_update_secret(aws_secrets, e.secret_name, new_secret_value)
         /\ Answered("createSecret", e, t, 200)
         /\ UNCHANGED <<rotation_history, rotation_schedules>>

\* _update_target_system: the updater of the target system; its result is
\* an input
update_target_system == {"True", "False"}

\* _handle_set_secret; _update_target_system answers True or False and the
\* handler drops the answer
handle_set_secret(e, t) ==
  /\ IF ~mock_mode /\ aws_get_raises(aws_secrets, e.secret_name)
       THEN Answered("setSecret", e, t, 500)
       ELSE Answered("setSecret", e, t, 200)
  /\ IF mock_mode \/ aws_get_raises(aws_secrets, e.secret_name)
       THEN target_updated' = "not called"
       ELSE target_updated' \in update_target_system
  /\ UNCHANGED <<aws_secrets, rotation_history, rotation_schedules>>

\* _test_secret_authentication: the authentication prober; its result is an input
test_secret_authentication == BOOLEAN

\* _handle_test_secret
handle_test_secret(e, t) ==
  /\ IF mock_mode
       THEN Answered("testSecret", e, t, 200)
     ELSE IF aws_get_raises(aws_secrets, e.secret_name)
       THEN Answered("testSecret", e, t, 500)
     ELSE \E test_result \in test_secret_authentication :
            Answered("testSecret", e, t, IF test_result THEN 200 ELSE 500)
  /\ UNCHANGED <<aws_secrets, rotation_history, rotation_schedules>>

\* every schedule there is moved on, not the one of the rotated secret alone
update_every_rotation_schedule(scheds, n, t) ==
  [m \in SecretNames |->
     IF scheds[m] # NoSchedule
       THEN [scheds[m] EXCEPT !.last_rotation = t,
                              !.next_rotation = t + scheds[m].rotation_interval_days]
       ELSE scheds[m]]

\* _update_rotation_schedule
update_rotation_schedule(scheds, n, t) ==
  IF scheds[n] # NoSchedule
    THEN [scheds EXCEPT ![n].last_rotation = t,
                        ![n].next_rotation = t + scheds[n].rotation_interval_days]
    ELSE scheds

\* _handle_finish_secret
handle_finish_secret(e, t) ==
  /\ Len(rotation_history) < MaxHistory
  /\ rotation_history' = Append(rotation_history,
        RotationResult(e.secret_name, "success", "Rotation completed successfully", FALSE))
  /\ rotation_schedules' = update_rotation_schedule(rotation_schedules, e.secret_name, now)
  /\ Answered("finishSecret", e, t, 200)
  /\ UNCHANGED aws_secrets

\* handle_aws_rotation_event, Step = createSecret, for the events E
CreateSecretOf(E) ==
  \E e \in E, t \in Tokens :
    /\ handle_create_secret(e, t)
    /\ UNCHANGED <<mock_mode, now, watched>>
    /\ UNCHANGED <<handler_vault_client, status_last, rotate_last, target_updated>>
    /\ UNCHANGED <<syncVars, toolVars>>

\* handle_aws_rotation_event, Step = setSecret
SetSecretOf(E) ==
  \E e \in E, t \in Tokens :
    /\ handle_set_secret(e, t)
    /\ UNCHANGED <<mock_mode, now, watched>>
    /\ UNCHANGED <<handler_vault_client, status_last, rotate_last>>
    /\ UNCHANGED <<syncVars, toolVars>>

\* handle_aws_rotation_event, Step = testSecret
TestSecretOf(E) ==
  \E e \in E, t \in Tokens :
    /\ handle_test_secret(e, t)
    /\ UNCHANGED <<mock_mode, now, watched>>
    /\ UNCHANGED <<handler_vault_client, status_last, rotate_last, target_updated>>
    /\ UNCHANGED <<syncVars, toolVars>>

\* handle_aws_rotation_event, Step = finishSecret
FinishSecretOf(E) ==
  \E e \in E, t \in Tokens :
    /\ handle_finish_secret(e, t)
    /\ UNCHANGED <<mock_mode, now, watched>>
    /\ UNCHANGED <<handler_vault_client, status_last, rotate_last, target_updated>>
    /\ UNCHANGED <<syncVars, toolVars>>

\* a Step that is none of the four handled as the last of them
step_handler_or_finish(step) == IF step \in Steps THEN step ELSE "finishSecret"

\* the if/elif chain of handle_aws_rotation_event: the step whose handler the
\* event goes to, "invalid" when it raises ValueError
step_handler(step) == IF step \in Steps THEN step ELSE "invalid"

\* handle_aws_rotation_event: the ValueError is answered 500
handle_aws_rotation_event(e, t, step) ==
  LET handler == step_handler(step)
  IN CASE handler = "createSecret" -> handle_create_secret(e, t)
       [] handler = "setSecret" -> handle_set_secret(e, t)
       [] handler = "testSecret" -> handle_test_secret(e, t)
       [] handler = "finishSecret" -> handle_finish_secret(e, t)
       [] OTHER ->
            /\ Answered(step, e, t, 500)
            /\ UNCHANGED <<aws_secrets, rotation_history, rotation_schedules>>

\* handle_aws_rotation_event with a Step that is none of the four
UnknownStepOf(E) ==
  \E e \in E, t \in Tokens, step \in EventSteps \ Steps :
    /\ handle_aws_rotation_event(e, t, step)
    /\ UNCHANGED <<mock_mode, now, watched>>
    /\ UNCHANGED <<handler_vault_client, status_last, rotate_last, target_updated>>
    /\ UNCHANGED <<syncVars, toolVars>>

UnknownStep == UnknownStepOf(Events)

CreateSecret == CreateSecretOf(Events)
SetSecret == SetSecretOf(Events)
TestSecret == TestSecretOf(Events)
FinishSecret == FinishSecretOf(Events)

\* the next rotation counted from the start of the clock, not from now
schedule_rotation_from_start(scheds, n, d, t) ==
  [scheds EXCEPT ![n] = [secret_name |-> n, rotation_interval_days |-> d,
                         last_rotation |-> t, next_rotation |-> d,
                         enabled |-> TRUE]]

\* schedule_rotation
schedule_rotation(scheds, n, d, t) ==
  [scheds EXCEPT ![n] = [secret_name |-> n, rotation_interval_days |-> d,
                         last_rotation |-> t, next_rotation |-> t + d,
                         enabled |-> TRUE]]

ScheduleRotationOf(N) ==
  \E n \in N, d \in Intervals :
    /\ rotation_schedules' = schedule_rotation(rotation_schedules, n, d, now)
    /\ last' = Response("schedule_rotation", n, 0, 0, FALSE)
    /\ UNCHANGED <<aws_secrets, rotation_history, rot, mock_mode, now, watched>>
    /\ UNCHANGED <<handler_vault_client, status_last, rotate_last, target_updated>>
    /\ UNCHANGED <<syncVars, toolVars>>

ScheduleRotation == ScheduleRotationOf(SecretNames)

\* a rollback that puts its result in the place of the last result on record
RollbackRotationOverLast(N) ==
  \E n \in N :
    LET result == RotationResult(n, "rolled_back",
                                 "Rotation rolled back successfully", FALSE)
    IN /\ Len(rotation_history) < MaxHistory
       /\ rotation_history' =
            IF rotation_history = <<>> THEN <<result>>
            ELSE [rotation_history EXCEPT ![Len(rotation_history)] = result]
       /\ last' = Response("rollback_rotation", n, 0, 0, FALSE)
       /\ rot' = IF n = watched THEN NoRotation ELSE rot
       /\ UNCHANGED <<aws_secrets, rotation_schedules, mock_mode, now, watched>>
       /\ UNCHANGED <<handler_vault_client, status_last, rotate_last, target_updated>>
       /\ UNCHANGED <<syncVars, toolVars>>

\* rollback_rotation: nothing in its try block can raise
RollbackRotationOf(N) ==
  \E n \in N :
    /\ Len(rotation_history) < MaxHistory
    /\ rotation_history' = Append(rotation_history,
          RotationResult(n, "rolled_back", "Rotation rolled back successfully", FALSE))
    /\ last' = Response("rollback_rotation", n, 0, 0, FALSE)
    /\ rot' = IF n = watched THEN NoRotation ELSE rot
    /\ UNCHANGED <<aws_secrets, rotation_schedules, mock_mode, now, watched>>
    /\ UNCHANGED <<handler_vault_client, status_last, rotate_last, target_updated>>
    /\ UNCHANGED <<syncVars, toolVars>>

RollbackRotation == RollbackRotationOf(SecretNames)

\* the wall clock moves between calls
Tick ==
  /\ now < MaxTime
  /\ now' = now + 1
  /\ UNCHANGED <<aws_secrets, rotation_history, rotation_schedules, last, rot,
                 mock_mode, watched>>
  /\ UNCHANGED <<handler_vault_client, status_last, rotate_last, target_updated>>
  /\ UNCHANGED <<syncVars, toolVars>>

\* The rotation protocol: the events of the four steps, and rollback.
NextRot ==
  \/ CreateSecret
  \/ SetSecret
  \/ TestSecret
  \/ FinishSecret
  \/ UnknownStep
  \/ RollbackRotation

\* The rotations of one secret, the watched one, and the schedules, as time
\* passes.
NextSched ==
  \/ CreateSecretOf(EventsOf(watched))
  \/ SetSecretOf(EventsOf(watched))
  \/ TestSecretOf(EventsOf(watched))
  \/ FinishSecretOf(EventsOf(watched))
  \/ UnknownStepOf(EventsOf(watched))
  \/ ScheduleRotationOf({watched})
  \/ Tick

\* ------------------------------------------------- binary floating point
\* The floats of get_rotation_status, as m * 2^e with a mantissa m of
\* FloatBits bits, rounded to the nearest, ties to the even mantissa. A double
\* has 53 bits; every odd width rounds the quotients s / n * 100 of
\* 0 <= s <= n <= RecentRotations to the same side as 53 bits do, and 11 bits
\* keep the arithmetic within the integers at hand.
FloatBits == 11

RECURSIVE Pow2(_)
Pow2(k) == IF k = 0 THEN 1 ELSE 2 * Pow2(k - 1)

FloatZero == [m |-> 0, e |-> 0]

\* the integer nearest to num / den, a tie going to the even one
RoundHalfEven(num, den) ==
  LET q == num \div den
      r == num % den
  IN IF 2 * r > den \/ (2 * r = den /\ q % 2 = 1) THEN q + 1 ELSE q

\* the float nearest to num * 2^e / den, for num > 0: the mantissa is brought
\* into [2^(FloatBits-1), 2^FloatBits) first
RECURSIVE FloatOf(_, _, _)
FloatOf(num, den, e) ==
  IF num < den * Pow2(FloatBits - 1) THEN FloatOf(2 * num, den, e - 1)
  ELSE IF num >= den * Pow2(FloatBits) THEN FloatOf(num, 2 * den, e + 1)
  ELSE LET m == RoundHalfEven(num, den)
       IN IF m = Pow2(FloatBits) THEN [m |-> Pow2(FloatBits - 1), e |-> e + 1]
          ELSE [m |-> m, e |-> e]

\* a / b of two ints, b > 0: true division
FloatDiv(a, b) == IF a = 0 THEN FloatZero ELSE FloatOf(a, b, 0)

\* x * k of a float and an int
FloatTimes(x, k) == IF x.m = 0 \/ k = 0 THEN FloatZero ELSE FloatOf(x.m * k, 1, x.e)

\* x == k of a float and an int, k >= 0
FloatEquals(x, k) ==
  IF x.e >= 0 THEN x.m * Pow2(x.e) = k ELSE x.m = k * Pow2(0 - x.e)

\* --------------------------------------- rotate_vault_secret, status
\* _sync_rotation_to_aws: update_secret with the credentials read from Vault
\* (0: the read raised or gave nothing); what raises is logged and dropped
sync_rotation_to_aws(store, n, credentials) ==
  IF credentials # 0 /\ ~aws_get_raises(store, n)
    THEN mock_update_secret(store, n, credentials)
    ELSE store

\* how _sync_rotation_to_aws ended: the read of the credentials raised or gave
\* nothing, update_secret raised, or update_secret returned
sync_rotation_outcome(store, n, credentials) ==
  IF credentials = 0 THEN "not read"
  ELSE IF aws_get_raises(store, n) THEN "update raised"
  ELSE "updated"

\* every rotation put on record as a success
rotate_result_success(n, raises) ==
  RotationResult(n, "success", "Vault secret rotated successfully", FALSE)

\* the RotationResult of rotate_vault_secret: of the try block, or of the
\* except block when the write to Vault raised
rotate_result(n, raises) ==
  IF raises THEN RotationResult(n, "failed", "Rotation failed", TRUE)
  ELSE RotationResult(n, "success", "Vault secret rotated successfully", FALSE)

\* a direct rotation that moves the schedule of the secret on, as a
\* finishSecret event does
RotateVaultSecretRescheduling(N) ==
  \E n \in N, notify_aws \in BOOLEAN, raises \in BOOLEAN, credentials \in Values \cup {0} :
    LET live == ~mock_mode /\ handler_vault_client
    IN /\ Len(rotation_history) < MaxHistory
       /\ raises => live
       /\ credentials # 0 => live /\ notify_aws /\ ~raises
       /\ rotation_history' = Append(rotation_history, rotate_result(n, raises))
       /\ rotation_schedules' =
            IF raises THEN rotation_schedules
            ELSE update_rotation_schedule(rotation_schedules, n, now)
       /\ aws_secrets' = IF live /\ ~raises /\ notify_aws
                           THEN sync_rotation_to_aws(aws_secrets, n, credentials)
                           ELSE aws_secrets
       /\ last' = Response("rotate_vault_secret", n, 0, IF raises THEN 500 ELSE 200, FALSE)
       /\ rotate_last' =
            [secret_name |-> n, notify_aws |-> notify_aws,
             rotated |-> IF ~live THEN "not called"
                         ELSE IF raises THEN "raised" ELSE "returned",
             push |-> IF ~(live /\ ~raises /\ notify_aws) THEN "not called"
                      ELSE sync_rotation_outcome(aws_secrets, n, credentials),
             credentials |-> credentials,
             result |-> rotate_result(n, raises)]
       /\ UNCHANGED <<rot, mock_mode, now, watched>>
       /\ UNCHANGED <<handler_vault_client, status_last, target_updated>>
       /\ UNCHANGED <<syncVars, toolVars>>

\* rotate_vault_secret(n, notify_aws): with a Vault client and out of mock mode
\* the write to Vault may raise, and the rotation is then on record as failed
RotateVaultSecretOf(N) ==
  \E n \in N, notify_aws \in BOOLEAN, raises \in BOOLEAN, credentials \in Values \cup {0} :
    LET live == ~mock_mode /\ handler_vault_client
    IN /\ Len(rotation_history) < MaxHistory
       /\ raises => live
       /\ credentials # 0 => live /\ notify_aws /\ ~raises
       /\ rotation_history' = Append(rotation_history, rotate_result(n, raises))
       /\ aws_secrets' = IF live /\ ~raises /\ notify_aws
                           THEN sync_rotation_to_aws(aws_secrets, n, credentials)
                           ELSE aws_secrets
       /\ last' = Response("rotate_vault_secret", n, 0, IF raises THEN 500 ELSE 200, FALSE)
       /\ rotate_last' =
            [secret_name |-> n, notify_aws |-> notify_aws,
             rotated |-> IF ~live THEN "not called"
                         ELSE IF raises THEN "raised" ELSE "returned",
             push |-> IF ~(live /\ ~raises /\ notify_aws) THEN "not called"
                      ELSE sync_rotation_outcome(aws_secrets, n, credentials),
             credentials |-> credentials,
             result |-> rotate_result(n, raises)]
       /\ UNCHANGED <<rotation_schedules, rot, mock_mode, now, watched>>
       /\ UNCHANGED <<handler_vault_client, status_last, target_updated>>
       /\ UNCHANGED <<syncVars, toolVars>>

RotateVaultSecret == RotateVaultSecretOf(SecretNames)

\* `[-5:]`
RecentRotations == 5

\* the results on record for secret n, in the order they were recorded
ResultsOf(hist, n) == SelectSeq(hist, LAMBDA r : r.secret_name = n)

\* the first so many results taken for the recent ones
OldestRotations(results) ==
  IF Len(results) > RecentRotations THEN SubSeq(results, 1, RecentRotations)
  ELSE results

\* recent_rotations: the last five of them
RecentOf(results) ==
  IF Len(results) > RecentRotations
    THEN SubSeq(results, Len(results) - RecentRotations + 1, Len(results))
    ELSE results

\* get_rotation_status
get_rotation_status(hist, scheds, n) ==
  LET recent_rotations == RecentOf(ResultsOf(hist, n))
      success_count == Cardinality({i \in 1..Len(recent_rotations) :
                                      recent_rotations[i].status = "success"})
  IN [secret_name |-> n,
      last_status |-> IF recent_rotations # <<>>
                        THEN recent_rotations[Len(recent_rotations)].status
                        ELSE "None",
      success_rate |-> IF recent_rotations # <<>>
                         THEN FloatTimes(FloatDiv(success_count, Len(recent_rotations)), 100)
                         ELSE FloatZero,
      rotation_count |-> Len(recent_rotations),
      schedule |-> scheds[n]]

GetRotationStatusOf(N) ==
  \E n \in N :
    /\ status_last' = get_rotation_status(rotation_history, rotation_schedules, n)
    /\ last' = Response("get_rotation_status", n, 0, 0, FALSE)
    /\ UNCHANGED <<aws_secrets, rotation_history, rotation_schedules, rot,
                   mock_mode, now, watched, handler_vault_client, rotate_last,
                   target_updated>>
    /\ UNCHANGED <<syncVars, toolVars>>

GetRotationStatus == GetRotationStatusOf(SecretNames)

\* =========================================================== SecretSyncManager
\* Wall-clock instants of the stores' dates, in half seconds.
Instants == 0..MaxInstant

\* Character codes of the characters the date strings are made of.
Code ==
  ("+" :> 43) @@ ("." :> 46) @@ ("0" :> 48) @@ ("1" :> 49) @@ ("2" :> 50)
  @@ ("3" :> 51) @@ ("4" :> 52) @@ ("5" :> 53) @@ ("6" :> 54) @@ ("7" :> 55)
  @@ ("8" :> 56) @@ ("9" :> 57) @@ (":" :> 58) @@ ("Z" :> 90)

Digit(d) == <<"0", "1", "2", "3", "4", "5", "6", "7", "8", "9">>[d + 1]

\* The date strings agree up to the tens of seconds; what follows is the
\* seconds digit, the fraction and the zone.
\* datetime.isoformat() of an aware UTC datetime: the fraction is six digits,
\* left out when the microseconds are 0; the zone is +00:00.
isoformat(i) ==
  <<Digit(i \div 2)>>
    \o (IF i % 2 = 0 THEN <<>> ELSE <<".", "5", "0", "0", "0", "0", "0">>)
    \o <<"+", "0", "0", ":", "0", "0">>

\* created_time as Vault's KV v2 metadata gives it: RFC 3339, the fraction
\* without trailing zeros, the zone Z.
vault_created_time(i) ==
  <<Digit(i \div 2)>> \o (IF i % 2 = 0 THEN <<>> ELSE <<".", "5">>) \o <<"Z">>

\* str > str of Python: by code point, a proper prefix being the smaller
RECURSIVE StrGreater(_, _)
StrGreater(a, b) ==
  IF a = <<>> THEN FALSE
  ELSE IF b = <<>> THEN TRUE
  ELSE IF Code[Head(a)] # Code[Head(b)] THEN Code[Head(a)] > Code[Head(b)]
  ELSE StrGreater(Tail(a), Tail(b))

Directions == {"vault_to_aws", "aws_to_vault", "bidirectional"}
Policies == {"overwrite_destination", "skip", "use_newest", "manual"}

\* {'mock': 'data'}, the data of the secret _get_vault_secret makes up
MockData == [mock |-> "data"]

\* the payloads of the secrets the stores hold at first
SyncValues == {[password |-> v] : v \in Values}

\* response['data'] of hvac's read_secret_version: the payload of the secret
\* under 'data', next to its 'metadata'
Envelope(payload) == [data |-> payload, metadata |-> "metadata"]
NoTime == [absent |-> TRUE]

\* a version identifier that is None. The identifiers that are set: of Vault
\* the metadata.version of the response ("1" for the made-up secret, "latest"
\* for the number a read gives), of AWS the version_id the connector returns
NoVersion == "None"

\* the version_id of _mock_create_secret and _mock_get_secret, and of
\* _mock_update_secret
CreatedVersion == "v1"
UpdatedVersion == "v2"

VaultRecord(v, c) == [data |-> v, created |-> c]

\* the stores and the log a call works on
SyncState(v, a, l) == [vault |-> v, aws |-> a, audit |-> l]

\* a failed read answered with the made-up secret of the mock mode
get_vault_secret_or_mock(st, n) ==
  IF vault_client = "none" \/ st.vault[n] = NoSecret
    THEN [data |-> MockData, created_time |-> NoTime, version |-> "1"]
  ELSE [data |-> IF vault_client = "nested" THEN Envelope(st.vault[n].data)
                                                ELSE st.vault[n].data,
        created_time |-> IF vault_client = "flat"
                           THEN vault_created_time(st.vault[n].created)
                           ELSE NoTime,
        version |-> IF vault_client = "flat" THEN "latest" ELSE NoVersion]

\* the stores that raise on every call, and what their errors say
vault_raises == "vault" \in unavailable /\ vault_client # "none"
aws_raises == "aws" \in unavailable
VaultUnavailable == "Vault unavailable"
AwsUnavailable == "AWS unavailable"

\* _get_vault_secret: None (NoSecret) when the read raises, whatever the error
get_vault_secret(st, n) ==
  IF vault_client = "none"
    THEN [data |-> MockData, created_time |-> NoTime, version |-> "1"]
  ELSE IF vault_raises \/ st.vault[n] = NoSecret THEN NoSecret
  ELSE [data |-> IF vault_client = "nested" THEN Envelope(st.vault[n].data)
                                                ELSE st.vault[n].data,
        created_time |-> IF vault_client = "flat"
                           THEN vault_created_time(st.vault[n].created)
                           ELSE NoTime,
        version |-> IF vault_client = "flat" THEN "latest" ELSE NoVersion]

\* _check_vault_secret_exists
check_vault_secret_exists(st, n) == get_vault_secret(st, n) # NoSecret

\* _check_aws_secret_exists: False when get_secret raises, whatever the error
check_aws_secret_exists(st, n) == ~(aws_raises \/ aws_get_raises(st.aws, n))

\* _write_vault_secret: a new version of the secret, made at instant t
write_vault_secret(st, n, data, t) ==
  IF vault_client = "none" THEN st.vault
  ELSE [st.vault EXCEPT ![n] = VaultRecord(data, t)]

\* the entry put before the others
log_audit_newest_first(log, operation, n, direction, status) ==
  <<[operation |-> operation, secret_name |-> n,
     direction |-> direction, status |-> status, user |-> "system"]>> \o log

\* SyncAuditEntry and _log_audit
log_audit(log, operation, n, direction, status) ==
  Append(log, [operation |-> operation, secret_name |-> n,
               direction |-> direction, status |-> status, user |-> "system"])

SyncResult(n, direction, status, message) ==
  [secret_name |-> n, direction |-> direction, status |-> status,
   message |-> message, vault_version |-> NoVersion, aws_version |-> NoVersion]

\* a SyncResult made with vault_version= or aws_version=
Versions(result, vault_version, aws_version) ==
  [result EXCEPT !.vault_version = vault_version, !.aws_version = aws_version]

\* what a call leaves: the stores, the log, the result it returns (status
\* "raised": it raised instead) and the create/update/write calls it made,
\* the one that raised among them
Outcome(st, result, writes) ==
  [vault |-> st.vault, aws |-> st.aws, audit |-> st.audit,
   result |-> result, writes |-> writes]

\* the one-directional syncs go on to the write of a dry run
DryRunIgnored(dry_run) == FALSE

\* `if dry_run:` of the one-directional syncs
DryRunReturns(dry_run) == dry_run

\* _sync_vault_to_aws
sync_vault_to_aws(st, n, conflict_resolution, dry_run, t) ==
  LET vault_secret == get_vault_secret(st, n)
      aws_exists == check_aws_secret_exists(st, n)
  IN
  IF vault_secret = NoSecret
    THEN Outcome(st, SyncResult(n, "vault_to_aws", "failed",
                                "Secret not found in Vault"), 0)
  ELSE IF DryRunReturns(dry_run)
    THEN Outcome(st, Versions(SyncResult(n, "vault_to_aws", "skipped",
                   IF aws_exists THEN "Dry run: Would update secret in AWS"
                                 ELSE "Dry run: Would create secret in AWS"),
                   vault_secret.version, NoVersion), 0)
  ELSE IF aws_exists /\ conflict_resolution = "skip"
    THEN Outcome(st, SyncResult(n, "vault_to_aws", "skipped",
                   "Secret exists in AWS, skipping per conflict resolution"), 0)
  ELSE IF aws_raises
    THEN Outcome(st, SyncResult(n, "vault_to_aws", "raised", AwsUnavailable), 1)
  ELSE
    Outcome(
      SyncState(st.vault,
                IF aws_exists
                  THEN mock_update_secret(st.aws, n, vault_secret.data)
                  ELSE mock_create_secret(st.aws, n, vault_secret.data, t),
                log_audit(st.audit, "sync", n, "vault_to_aws", "success")),
      Versions(SyncResult(n, "vault_to_aws", "success",
                          IF aws_exists THEN "Updated secret in AWS"
                                        ELSE "Created secret in AWS"),
               vault_secret.version,
               IF aws_exists THEN UpdatedVersion ELSE CreatedVersion),
      1)

\* _sync_aws_to_vault
sync_aws_to_vault(st, n, conflict_resolution, dry_run, t) ==
  LET vault_exists == check_vault_secret_exists(st, n)
  IN
  IF aws_raises
    THEN Outcome(st, SyncResult(n, "aws_to_vault", "raised", AwsUnavailable), 0)
  ELSE IF aws_get_raises(st.aws, n)
    THEN Outcome(st, SyncResult(n, "aws_to_vault", "raised", "Secret not found"), 0)
  ELSE IF DryRunReturns(dry_run)
    THEN Outcome(st, Versions(SyncResult(n, "aws_to_vault", "skipped",
                   IF vault_exists THEN "Dry run: Would update secret in Vault"
                                   ELSE "Dry run: Would create secret in Vault"),
                   NoVersion, CreatedVersion), 0)
  ELSE IF vault_exists /\ conflict_resolution = "skip"
    THEN Outcome(st, SyncResult(n, "aws_to_vault", "skipped",
                   "Secret exists in Vault, skipping per conflict resolution"), 0)
  ELSE IF vault_raises
    THEN Outcome(st, SyncResult(n, "aws_to_vault", "raised", VaultUnavailable), 1)
  ELSE
    Outcome(
      SyncState(write_vault_secret(st, n, st.aws[n].secret_value, t),
                st.aws,
                log_audit(st.audit, "sync", n, "aws_to_vault", "success")),
      Versions(SyncResult(n, "aws_to_vault", "success",
                          "Synced secret from AWS to Vault"),
               NoVersion, CreatedVersion),
      1)

\* `if vault_time and aws_time:` / `if vault_time > aws_time.isoformat():`
\* "vault": sync from Vault, "aws": sync from AWS, "none": no decision
newest_side(vault_time, aws_time) ==
  IF vault_time = NoTime THEN "none"
  ELSE IF StrGreater(vault_time, isoformat(aws_time)) THEN "vault"
  ELSE "aws"

\* overwrite_destination is taken for a policy that picks a side as well
resolves_by_date_or_overwrite(conflict_resolution) ==
  conflict_resolution \in {"use_newest", "overwrite_destination"}

\* the policies under which two present copies are compared
resolves_by_date(conflict_resolution) == conflict_resolution = "use_newest"

\* a bidirectional sync that hands a name only AWS holds to the sync from Vault
sync_bidirectional_from_vault(st, n, conflict_resolution, dry_run, t) ==
  IF ~check_vault_secret_exists(st, n) /\ ~check_aws_secret_exists(st, n)
    THEN Outcome(st, SyncResult(n, "bidirectional", "failed",
                                "Secret not found in either system"), 0)
  ELSE sync_vault_to_aws(st, n, conflict_resolution, dry_run, t)

\* _sync_bidirectional
sync_bidirectional(st, n, conflict_resolution, dry_run, t) ==
  LET vault_exists == check_vault_secret_exists(st, n)
      aws_exists == check_aws_secret_exists(st, n)
      conflict == Outcome(st, SyncResult(n, "bidirectional", "conflict",
        "Secret exists in both systems, manual resolution required"), 0)
  IN
  IF ~vault_exists /\ ~aws_exists
    THEN Outcome(st, SyncResult(n, "bidirectional", "failed",
                                "Secret not found in either system"), 0)
  ELSE IF vault_exists /\ ~aws_exists
    THEN sync_vault_to_aws(st, n, conflict_resolution, dry_run, t)
  ELSE IF aws_exists /\ ~vault_exists
    THEN sync_aws_to_vault(st, n, conflict_resolution, dry_run, t)
  ELSE IF resolves_by_date(conflict_resolution)
    THEN LET side == newest_side(get_vault_secret(st, n).created_time,
                                 st.aws[n].created)
         IN CASE side = "vault" ->
                   sync_vault_to_aws(st, n, "overwrite_destination", dry_run, t)
              [] side = "aws" ->
                   sync_aws_to_vault(st, n, "overwrite_destination", dry_run, t)
              [] OTHER -> conflict
  ELSE conflict

\* a sync_secret that puts the failed result of a sync that raised on the log
sync_secret_audits_failure(st, n, direction, conflict_resolution, dry_run, t) ==
  LET out == CASE direction = "vault_to_aws" ->
                    sync_vault_to_aws(st, n, conflict_resolution, dry_run, t)
               [] direction = "aws_to_vault" ->
                    sync_aws_to_vault(st, n, conflict_resolution, dry_run, t)
               [] OTHER ->
                    sync_bidirectional(st, n, conflict_resolution, dry_run, t)
  IN IF out.result.status = "raised"
       THEN [out EXCEPT !.result = SyncResult(n, direction, "failed",
                                              out.result.message),
                        !.audit = log_audit(st.audit, "sync", n, direction, "failed")]
       ELSE out

\* sync_secret: an exception of the syncs becomes a failed result that carries
\* the direction asked for
sync_secret(st, n, direction, conflict_resolution, dry_run, t) ==
  LET out == CASE direction = "vault_to_aws" ->
                    sync_vault_to_aws(st, n, conflict_resolution, dry_run, t)
               [] direction = "aws_to_vault" ->
                    sync_aws_to_vault(st, n, conflict_resolution, dry_run, t)
               [] OTHER ->
                    sync_bidirectional(st, n, conflict_resolution, dry_run, t)
  IN IF out.result.status = "raised"
       THEN [out EXCEPT !.result = SyncResult(n, direction, "failed",
                                              out.result.message)]
       ELSE out

\* the dates the stores hold
Stamps(st) ==
  {st.vault[n].created : n \in {m \in SecretNames : st.vault[m] # NoSecret}}
    \cup {st.aws[n].created : n \in {m \in SecretNames : st.aws[m] # NoSecret}}

\* datetime.now() of a call: not before any date the stores hold
CallTimes(st) == {t \in Instants : \A c \in Stamps(st) : t >= c}

CurrentSync == SyncState(vault_secrets, sync_aws, audit_log)

\* the arguments of a sync_secret call, other than the secret's name
SyncCall(direction, conflict_resolution, dry_run) ==
  [direction |-> direction, conflict_resolution |-> conflict_resolution,
   dry_run |-> dry_run]

\* sync_secret(n, direction, conflict_resolution, dry_run)
SyncSecretCall(n, direction, conflict_resolution, dry_run) ==
  \E t \in CallTimes(CurrentSync) :
    LET out == sync_secret(CurrentSync, n, direction, conflict_resolution,
                           dry_run, t)
    IN /\ Len(out.audit) <= MaxAudit
       /\ vault_secrets' = out.vault
       /\ sync_aws' = out.aws
       /\ audit_log' = out.audit
       /\ sync_last' = [call |-> SyncCall(direction, conflict_resolution, dry_run),
                        result |-> out.result, writes |-> out.writes]
       /\ UNCHANGED <<vault_client, batch_last, unavailable, sync_status, audit_file,
                       rotVars, toolVars>>

\* the secret the sync calls are made for
SyncedNames == {<<"db">>}

SyncSecret ==
  \E n \in SyncedNames, direction \in Directions, policy \in Policies,
     dry_run \in BOOLEAN :
    SyncSecretCall(n, direction, policy, dry_run)

NoResultYet ==
  [call |-> SyncCall("none", "none", FALSE),
   result |-> SyncResult(<<>>, "none", "none", "none"), writes |-> 0]

\* -------------------------------------------------------------- batch_sync
\* the loop of batch_sync stopped at the first failed result
RECURSIVE batch_sync_until_failure(_, _, _, _, _, _)
batch_sync_until_failure(st, secret_names, direction, conflict_resolution, dry_run, t) ==
  IF secret_names = <<>> THEN [state |-> st, results |-> <<>>]
  ELSE LET out == sync_secret(st, Head(secret_names), direction,
                              conflict_resolution, dry_run, t)
           rest == batch_sync_until_failure(SyncState(out.vault, out.aws, out.audit),
                              Tail(secret_names), direction, conflict_resolution,
                              dry_run, t)
       IN IF out.result.status = "failed"
            THEN [state |-> st, results |-> <<out.result>>]
            ELSE [state |-> rest.state, results |-> <<out.result>> \o rest.results]

\* batch_sync: sync_secret for each name in turn, the results in a list
RECURSIVE batch_sync(_, _, _, _, _, _)
batch_sync(st, secret_names, direction, conflict_resolution, dry_run, t) ==
  IF secret_names = <<>> THEN [state |-> st, results |-> <<>>]
  ELSE LET out == sync_secret(st, Head(secret_names), direction,
                              conflict_resolution, dry_run, t)
           rest == batch_sync(SyncState(out.vault, out.aws, out.audit),
                              Tail(secret_names), direction, conflict_resolution,
                              dry_run, t)
       IN [state |-> rest.state, results |-> <<out.result>> \o rest.results]

\* the lists of names a batch is called with
NameLists == UNION {[1..k -> SecretNames] : k \in 0..MaxBatch}

NoBatchYet ==
  [secret_names |-> <<>>, call |-> SyncCall("none", "none", FALSE), results |-> <<>>]

\* batch_sync(secret_names, direction, conflict_resolution, dry_run)
BatchSync ==
  \E secret_names \in NameLists, direction \in Directions, policy \in Policies,
     dry_run \in BOOLEAN, t \in CallTimes(CurrentSync) :
    LET out == batch_sync(CurrentSync, secret_names, direction, policy, dry_run, t)
    IN /\ Len(out.state.audit) <= MaxAudit
       /\ vault_secrets' = out.state.vault
       /\ sync_aws' = out.state.aws
       /\ audit_log' = out.state.audit
       /\ batch_last' = [secret_names |-> secret_names,
                         call |-> SyncCall(direction, policy, dry_run),
                         results |-> out.results]
       /\ UNCHANGED <<vault_client, sync_last, unavailable, sync_status, audit_file,
                       rotVars, toolVars>>

\* ------------------------------------- get_sync_status, export_audit_log
NoSyncStatus == [absent |-> TRUE]
NoFile == [absent |-> TRUE]

\* get_sync_status: the two existence checks and, with the secret in both
\* stores, the comparison of vault_secret.get('data') with secret_data
get_sync_status(st, n) ==
  LET vault_exists == check_vault_secret_exists(st, n)
      aws_exists == check_aws_secret_exists(st, n)
      synced == IF vault_exists /\ aws_exists
                  THEN get_vault_secret(st, n).data = st.aws[n].secret_value
                  ELSE FALSE
  IN [secret_name |-> n, in_vault |-> vault_exists, in_aws |-> aws_exists,
      synced |-> synced,
      conflicts |-> IF vault_exists /\ aws_exists /\ ~synced
                      THEN <<"Secret values differ between systems">>
                      ELSE <<>>]

\* get_sync_status(secret_name)
GetSyncStatus ==
  \E n \in SyncedNames :
    /\ sync_status' = get_sync_status(CurrentSync, n)
    /\ UNCHANGED <<vault_client, vault_secrets, sync_aws, audit_log, sync_last,
                   batch_last, unavailable, audit_file, rotVars, toolVars>>

\* json.dump([asdict(entry) for entry in self.audit_log], ...): the entries in
\* the order of the log, each with its fields by name
asdict(entry) ==
  <<<<"operation", entry.operation>>, <<"secret_name", entry.secret_name>>,
    <<"direction", entry.direction>>, <<"status", entry.status>>,
    <<"user", entry.user>>>>

\* export_audit_log(output_file): open() may raise, and no file is written
ExportAuditLog ==
  \E raises \in BOOLEAN :
    /\ audit_file' = IF raises THEN audit_file
                     ELSE [entries |-> [i \in DOMAIN audit_log |-> asdict(audit_log[i])]]
    /\ UNCHANGED <<vault_client, vault_secrets, sync_aws, audit_log, sync_last,
                   batch_last, unavailable, sync_status, rotVars, toolVars>>

\* a SecretSyncManager over stores that hold the secret or not; with no Vault
\* client the Vault store is never read or written
SyncInit ==
  /\ vault_client \in {"none", "nested", "flat"}
  /\ vault_secrets \in [SecretNames ->
        {NoSecret} \cup {VaultRecord(v, c) : v \in SyncValues, c \in Instants}]
  /\ sync_aws \in [SecretNames ->
        {NoSecret} \cup {AwsRecord(v, c) : v \in SyncValues, c \in Instants}]
  /\ \A n \in SecretNames \ SyncedNames :
        vault_secrets[n] = NoSecret /\ sync_aws[n] = NoSecret
  /\ vault_client = "none" => \A n \in SecretNames : vault_secrets[n] = NoSecret
  /\ audit_log = <<>>
  /\ sync_last = NoResultYet
  /\ batch_last = NoBatchYet
  /\ sync_status = NoSyncStatus
  /\ audit_file = NoFile

\* ======================================================== specifications
\* no SecretSyncManager at work
SyncIdle ==
  /\ vault_client = "none"
  /\ vault_secrets = [n \in SecretNames |-> NoSecret]
  /\ sync_aws = [n \in SecretNames |-> NoSecret]
  /\ audit_log = <<>>
  /\ sync_last = NoResultYet
  /\ batch_last = NoBatchYet
  /\ sync_status = NoSyncStatus
  /\ audit_file = NoFile
  /\ unavailable = {}

\* no RotationHandler at work
RotationIdle ==
  /\ mock_mode = TRUE
  /\ aws_secrets = [n \in SecretNames |-> NoSecret]
  /\ rotation_history = <<>>
  /\ rotation_schedules = [n \in SecretNames |-> NoSchedule]
  /\ now = 0
  /\ last = Response("init", <<>>, 0, 0, FALSE)
  /\ watched = <<"db">>
  /\ rot = NoRotation
  /\ handler_vault_client = FALSE
  /\ status_last = NoStatus
  /\ rotate_last = NoRotateYet
  /\ target_updated = "not called"

\* a handler without a Vault client
InitRot == RotationInit /\ handler_vault_client = FALSE /\ SyncIdle /\ ToolIdle

SpecRot == InitRot /\ [][NextRot]_vars

\* the store holds no other secret than the watched one
InitSched ==
  /\ InitRot
  /\ \A n \in SecretNames \ {watched} : aws_secrets[n] = NoSecret

SpecSched == InitSched /\ [][NextSched]_vars

\* no other call than schedule_rotation has been made on the handler
Scheduling == last.op \in {"init", "schedule_rotation"}

\* The schedules are made as time passes, and then the handler is called once,
\* with any call.
NextFrame ==
  \/ Scheduling /\ CreateSecret
  \/ Scheduling /\ SetSecret
  \/ Scheduling /\ TestSecret
  \/ Scheduling /\ FinishSecret
  \/ Scheduling /\ UnknownStep
  \/ Scheduling /\ RotateVaultSecret
  \/ Scheduling /\ RollbackRotation
  \/ Scheduling /\ GetRotationStatus
  \/ Scheduling /\ ScheduleRotation
  \/ Scheduling /\ Tick

\* a handler with a Vault client, its store holding no other secret than the
\* watched one
InitFrame ==
  /\ RotationInit
  /\ handler_vault_client = TRUE
  /\ \A n \in SecretNames \ {watched} : aws_secrets[n] = NoSecret
  /\ SyncIdle
  /\ ToolIdle

SpecFrame == InitFrame /\ [][NextFrame]_vars

\* the results rotate_vault_secret and rollback_rotation put on record
RecordedResults ==
  {RotationResult(<<"db">>, "success", "Vault secret rotated successfully", FALSE),
   RotationResult(<<"db">>, "failed", "Rotation failed", TRUE),
   RotationResult(<<"db">>, "rolled_back", "Rotation rolled back successfully", FALSE),
   RotationResult(<<"db", "admin">>, "success", "Vault secret rotated successfully", FALSE)}

\* a handler with some results on record, on which schedules are made as time
\* passes and then any one call
InitHistory ==
  /\ mock_mode \in BOOLEAN
  /\ handler_vault_client = TRUE
  /\ watched \in SecretNames
  /\ aws_secrets \in [SecretNames -> {NoSecret} \cup {AwsRecord(v, 0) : v \in Values}]
  /\ \A n \in SecretNames \ {watched} : aws_secrets[n] = NoSecret
  /\ rotation_history \in
       UNION {[1..k -> RecordedResults] : k \in 0..(MaxHistory - 1)}
  /\ rotation_schedules = [n \in SecretNames |-> NoSchedule]
  /\ now = 0
  /\ last = Response("init", <<>>, 0, 0, FALSE)
  /\ rot = NoRotation
  /\ status_last = NoStatus
  /\ rotate_last = NoRotateYet
  /\ target_updated = "not called"
  /\ SyncIdle
  /\ ToolIdle

SpecHistory == InitHistory /\ [][NextFrame]_vars

\* a handler with some rotations and rollbacks on record and with schedules
\* made when the clock started
InitStatus ==
  /\ mock_mode = FALSE
  /\ handler_vault_client = TRUE
  /\ aws_secrets = [n \in SecretNames |-> NoSecret]
  /\ rotation_history \in UNION {[1..k -> RecordedResults] : k \in 0..MaxRecorded}
  /\ \E d \in Intervals :
       rotation_schedules \in
         {[n \in SecretNames |-> NoSchedule],
          schedule_rotation([n \in SecretNames |-> NoSchedule], <<"db">>, d, 0)}
  /\ now = 0
  /\ last = Response("init", <<>>, 0, 0, FALSE)
  /\ watched = <<"db">>
  /\ rot = NoRotation
  /\ status_last = NoStatus
  /\ rotate_last = NoRotateYet
  /\ target_updated = "not called"
  /\ SyncIdle
  /\ ToolIdle

NextStatus == GetRotationStatus

SpecStatus == InitStatus /\ [][NextStatus]_vars

\* a handler in or out of mock mode, with or without a Vault client, on
\* which rotate_vault_secret alone is called
InitRotate == RotationInit /\ handler_vault_client \in BOOLEAN /\ SyncIdle /\ ToolIdle

NextRotate == RotateVaultSecret

SpecRotate == InitRotate /\ [][NextRotate]_vars

\* stores that answer every call
InitSync == SyncInit /\ unavailable = {} /\ RotationIdle /\ ToolIdle

\* stores of which any may answer no call
InitFault == SyncInit /\ unavailable \in SUBSET {"vault", "aws"} /\ RotationIdle /\ ToolIdle

NextSync == SyncSecret

\* a SecretSyncManager over stores that hold any of the secrets, each as it
\* was made at instant 0, before its first batch
InitBatch ==
  /\ vault_client \in {"none", "nested", "flat"}
  /\ vault_secrets \in [SecretNames ->
        {NoSecret} \cup {VaultRecord(v, 0) : v \in SyncValues}]
  /\ sync_aws \in [SecretNames ->
        {NoSecret} \cup {AwsRecord(v, 0) : v \in SyncValues}]
  /\ vault_client = "none" => \A n \in SecretNames : vault_secrets[n] = NoSecret
  /\ audit_log = <<>>
  /\ sync_last = NoResultYet
  /\ batch_last = NoBatchYet
  /\ sync_status = NoSyncStatus
  /\ audit_file = NoFile
  /\ unavailable = {}
  /\ RotationIdle
  /\ ToolIdle

\* the first batch a manager is called with
NextBatch == batch_last = NoBatchYet /\ BatchSync

SpecBatch == InitBatch /\ [][NextBatch]_vars

SpecSync == InitSync /\ [][NextSync]_vars

SpecFault == InitFault /\ [][NextSync]_vars

\* no other call than sync_secret has been made on the manager
Syncing ==
  batch_last = NoBatchYet /\ sync_status = NoSyncStatus /\ audit_file = NoFile

\* The calls that read or write the audit log: sync_secret calls, and then
\* one call of another of them, of batch_sync once the log has its first
\* entry.
NextAudit ==
  \/ Syncing /\ SyncSecret
  \/ Syncing /\ Len(audit_log) = 1 /\ BatchSync
  \/ Syncing /\ GetSyncStatus
  \/ Syncing /\ ExportAuditLog

\* a SecretSyncManager with a Vault client, over stores that hold the secret,
\* as it was made at instant 0, or not
InitAudit ==
  /\ SyncInit
  /\ vault_client = "flat"
  /\ \A n \in SecretNames :
       /\ vault_secrets[n] # NoSecret => vault_secrets[n].created = 0
       /\ sync_aws[n] # NoSecret => sync_aws[n].created = 0
  /\ unavailable = {}
  /\ RotationIdle
  /\ ToolIdle

SpecAudit == InitAudit /\ [][NextAudit]_vars

\* sync_secret calls, then get_sync_status calls, with any Vault client
InitSyncStatus == InitSync
NextSyncStatus ==
  \/ sync_status = NoSyncStatus /\ SyncSecret
  \/ GetSyncStatus
SpecSyncStatus == InitSyncStatus /\ [][NextSyncStatus]_vars

\* ========================================================== the tools
\* ------------------------------------------- calculate_secret_health_score
\* Wall-clock time since last_changed, in half days.
HalfDay == 2
ElapsedTimes == 0..(HalfDay * MaxAgeDays + 1)

\* last_changed of a SecretMetadata that has none (None)
NoLastChanged == -1

\* the tag keys a secret carries: the three required ones, and some other
RequiredTags == {"Environment", "Owner", "Application"}
TagKeys == RequiredTags \cup {"environment"}

\* SecretMetadata: the time since last_changed (or NoLastChanged),
\* rotation_enabled, the keys of tags
SecretMetadata(elapsed, rotation_enabled, tags) ==
  [elapsed |-> elapsed, rotation_enabled |-> rotation_enabled, tags |-> tags]

Metadatas ==
  {SecretMetadata(e, r, t) : e \in ElapsedTimes \cup {NoLastChanged},
                             r \in BOOLEAN, t \in SUBSET TagKeys}

\* (datetime.now(timezone.utc) - last_changed).days
days_old(elapsed) == elapsed \div HalfDay

\* the penalties of all the brackets an age is in, added up
staleness_of_every_bracket(days) ==
  (IF days > 365 THEN 40 ELSE 0) + (IF days > 180 THEN 25 ELSE 0)
    + (IF days > 90 THEN 10 ELSE 0)

\* `if days_old > 365: ... elif days_old > 180: ... elif days_old > 90:`
staleness(days) ==
  IF days > 365 THEN 40
  ELSE IF days > 180 THEN 25
  ELSE IF days > 90 THEN 10
  ELSE 0

\* `if score >= 90: ... elif score >= 75: ... elif score >= 50: ... else:`
health_status(score) ==
  IF score >= 90 THEN "excellent"
  ELSE IF score >= 75 THEN "good"
  ELSE IF score >= 50 THEN "fair"
  ELSE "poor"

calculate_secret_health_score(m) ==
  LET aged == IF m.elapsed = NoLastChanged THEN 100
              ELSE 100 - staleness(days_old(m.elapsed))
      rotated == IF ~m.rotation_enabled THEN aged - 20 ELSE aged
      missing_tags == {tag \in RequiredTags : tag \notin m.tags}
      score == IF missing_tags # {} THEN rotated - 10 ELSE rotated
  IN [health_score |-> IF score > 0 THEN score ELSE 0,
      status |-> health_status(score),
      last_changed_days |-> IF m.elapsed = NoLastChanged THEN NoLastChanged
                            ELSE days_old(m.elapsed),
      rotation_enabled |-> m.rotation_enabled]

\* calculate_secret_health_score(secret_metadata)
CalculateSecretHealthScore ==
  /\ tool_call.op = "metadata"
  /\ tool_call' = [op |-> "calculate_secret_health_score",
                   input |-> tool_call.input,
                   output |-> calculate_secret_health_score(tool_call.input)]
  /\ UNCHANGED <<rotVars, syncVars>>

\* a SecretMetadata, as list_secrets makes them
InitHealth ==
  /\ tool_call \in {[op |-> "metadata", input |-> m] : m \in Metadatas}
  /\ RotationIdle
  /\ SyncIdle

NextHealth == CalculateSecretHealthScore

SpecHealth == InitHealth /\ [][NextHealth]_vars

\* --------------------------------------------- vault_to_delinea: map_fields
\* Strings are sequences of characters.
UpperCase == <<"A", "B", "C", "D", "E", "F", "G", "H", "I", "J", "K", "L", "M",
               "N", "O", "P", "Q", "R", "S", "T", "U", "V", "W", "X", "Y", "Z">>
LowerCase == <<"a", "b", "c", "d", "e", "f", "g", "h", "i", "j", "k", "l", "m",
               "n", "o", "p", "q", "r", "s", "t", "u", "v", "w", "x", "y", "z">>

IsUpper(c) == \E i \in DOMAIN UpperCase : UpperCase[i] = c
IsLower(c) == \E i \in DOMAIN LowerCase : LowerCase[i] = c
ToLower(c) ==
  IF IsUpper(c) THEN LowerCase[CHOOSE i \in DOMAIN UpperCase : UpperCase[i] = c]
  ELSE c
ToUpper(c) ==
  IF IsLower(c) THEN UpperCase[CHOOSE i \in DOMAIN LowerCase : LowerCase[i] = c]
  ELSE c

\* str.lower()
lower(s) == [i \in DOMAIN s |-> ToLower(s[i])]

\* str.replace("_", " ")
replace_underscores(s) == [i \in DOMAIN s |-> IF s[i] = "_" THEN " " ELSE s[i]]

\* str.title(): a letter after a letter in lower case, any other letter in
\* upper case
title(s) ==
  [i \in DOMAIN s |->
     IF i > 1 /\ (IsUpper(s[i - 1]) \/ IsLower(s[i - 1])) THEN ToLower(s[i])
     ELSE ToUpper(s[i])]

\* `pattern in s`
contains(pattern, s) ==
  \E i \in 0..(Len(s) - Len(pattern)) :
    SubSeq(s, i + 1, i + Len(pattern)) = pattern

\* str(value)
str(value) == <<Digit(value)>>

\* the rules, in the order of the dict
DEFAULT_FIELD_MAPPINGS ==
  <<[pattern |-> <<"p", "a", "s", "s", "w", "o", "r", "d">>, field |-> <<"P", "a", "s", "s", "w", "o", "r", "d">>],
    [pattern |-> <<"p", "a", "s", "s", "w", "d">>, field |-> <<"P", "a", "s", "s", "w", "o", "r", "d">>],
    [pattern |-> <<"s", "e", "c", "r", "e", "t">>, field |-> <<"P", "a", "s", "s", "w", "o", "r", "d">>],
    [pattern |-> <<"p", "a", "s", "s">>, field |-> <<"P", "a", "s", "s", "w", "o", "r", "d">>],
    [pattern |-> <<"u", "s", "e", "r", "n", "a", "m", "e">>, field |-> <<"U", "s", "e", "r", "n", "a", "m", "e">>],
    [pattern |-> <<"u", "s", "e", "r">>, field |-> <<"U", "s", "e", "r", "n", "a", "m", "e">>],
    [pattern |-> <<"l", "o", "g", "i", "n">>, field |-> <<"U", "s", "e", "r", "n", "a", "m", "e">>],
    [pattern |-> <<"a", "c", "c", "o", "u", "n", "t">>, field |-> <<"U", "s", "e", "r", "n", "a", "m", "e">>],
    [pattern |-> <<"h", "o", "s", "t">>, field |-> <<"M", "a", "c", "h", "i", "n", "e">>],
    [pattern |-> <<"s", "e", "r", "v", "e", "r">>, field |-> <<"S", "e", "r", "v", "e", "r">>],
    [pattern |-> <<"h", "o", "s", "t", "n", "a", "m", "e">>, field |-> <<"M", "a", "c", "h", "i", "n", "e">>],
    [pattern |-> <<"m", "a", "c", "h", "i", "n", "e">>, field |-> <<"M", "a", "c", "h", "i", "n", "e">>],
    [pattern |-> <<"i", "p">>, field |-> <<"M", "a", "c", "h", "i", "n", "e">>],
    [pattern |-> <<"a", "d", "d", "r", "e", "s", "s">>, field |-> <<"M", "a", "c", "h", "i", "n", "e">>],
    [pattern |-> <<"d", "a", "t", "a", "b", "a", "s", "e">>, field |-> <<"D", "a", "t", "a", "b", "a", "s", "e">>],
    [pattern |-> <<"d", "b">>, field |-> <<"D", "a", "t", "a", "b", "a", "s", "e">>],
    [pattern |-> <<"d", "b", "n", "a", "m", "e">>, field |-> <<"D", "a", "t", "a", "b", "a", "s", "e">>],
    [pattern |-> <<"u", "r", "l">>, field |-> <<"U", "R", "L">>],
    [pattern |-> <<"e", "n", "d", "p", "o", "i", "n", "t">>, field |-> <<"E", "n", "d", "p", "o", "i", "n", "t", " ", "U", "R", "L">>],
    [pattern |-> <<"u", "r", "i">>, field |-> <<"U", "R", "L">>],
    [pattern |-> <<"a", "p", "i", "_", "k", "e", "y">>, field |-> <<"A", "P", "I", " ", "K", "e", "y">>],
    [pattern |-> <<"a", "p", "i", "k", "e", "y">>, field |-> <<"A", "P", "I", " ", "K", "e", "y">>],
    [pattern |-> <<"a", "p", "i", "-", "k", "e", "y">>, field |-> <<"A", "P", "I", " ", "K", "e", "y">>],
    [pattern |-> <<"a", "p", "i", "_", "s", "e", "c", "r", "e", "t">>, field |-> <<"A", "P", "I", " ", "S", "e", "c", "r", "e", "t">>],
    [pattern |-> <<"c", "l", "i", "e", "n", "t", "_", "i", "d">>, field |-> <<"C", "l", "i", "e", "n", "t", " ", "I", "D">>],
    [pattern |-> <<"c", "l", "i", "e", "n", "t", "_", "s", "e", "c", "r", "e", "t">>, field |-> <<"C", "l", "i", "e", "n", "t", " ", "S", "e", "c", "r", "e", "t">>],
    [pattern |-> <<"n", "o", "t", "e", "s">>, field |-> <<"N", "o", "t", "e", "s">>],
    [pattern |-> <<"d", "e", "s", "c", "r", "i", "p", "t", "i", "o", "n">>, field |-> <<"N", "o", "t", "e", "s">>],
    [pattern |-> <<"c", "o", "m", "m", "e", "n", "t">>, field |-> <<"N", "o", "t", "e", "s">>]>>

\* the keys of the source secret's data
VaultKeys ==
  {<<"P", "a", "s", "s", "w", "o", "r", "d">>,
   <<"d", "b", "_", "p", "a", "s", "s", "w", "o", "r", "d">>,
   <<"u", "s", "e", "r", "_", "p", "a", "s", "s">>,
   <<"d", "e", "s", "c", "r", "i", "p", "t", "i", "o", "n">>,
   <<"z", "i", "p", "_", "c", "o", "d", "e">>,
   <<"A", "P", "I", "_", "K", "E", "Y">>,
   <<"s", "e", "r", "v", "e", "r", "_", "u", "r", "l">>,
   <<"c", "o", "l", "o", "r">>,
   <<"C", "o", "l", "o", "r">>,
   <<"s", "s", "h", "_", "p", "o", "r", "t">>,
   <<"h", "o", "s", "t", "n", "a", "m", "e">>}

\* `dict.setdefault(key, value)`: the value a key has is kept
SetDefault(dict, key, value) ==
  [k \in DOMAIN dict \cup {key} |->
     IF k \in DOMAIN dict THEN dict[k] ELSE value]

\* a dict with nothing in it, and `dict[key] = value`
EmptyDict == [k \in {} |-> 0]
SetItem(dict, key, value) ==
  [k \in DOMAIN dict \cup {key} |-> IF k = key THEN value ELSE dict[k]]

\* the rules whose pattern is in the key, by their place in the dict
PartialMatches(rules, vault_key_lower) ==
  {i \in DOMAIN rules : contains(rules[i].pattern, vault_key_lower)}

\* the last of the rules whose pattern is in the key
last_partial_match(rules, vault_key_lower) ==
  LET matches == PartialMatches(rules, vault_key_lower)
  IN IF matches = {} THEN 0
     ELSE CHOOSE i \in matches : \A j \in matches : j <= i

\* `for pattern, target_field in self.field_mappings.items(): if pattern in
\* vault_key_lower: ... break`: the place of the rule taken, 0 for none
partial_match(rules, vault_key_lower) ==
  LET matches == PartialMatches(rules, vault_key_lower)
  IN IF matches = {} THEN 0
     ELSE CHOOSE i \in matches : \A j \in matches : i <= j

\* a key that no rule matches passed through under its own name
target_of_own_name(rules, vault_key) ==
  LET vault_key_lower == lower(vault_key)
      direct == {i \in DOMAIN rules : rules[i].pattern = vault_key_lower}
      partial == partial_match(rules, vault_key_lower)
  IN IF direct # {}
       THEN [field |-> rules[CHOOSE i \in direct : TRUE].field, matched |-> TRUE]
     ELSE IF partial # 0
       THEN [field |-> rules[partial].field, matched |-> TRUE]
     ELSE [field |-> vault_key, matched |-> FALSE]

\* the body of the loop of map_fields: the field one key of the data goes to
\* (matched: by a rule)
target_of(rules, vault_key) ==
  LET vault_key_lower == lower(vault_key)
      direct == {i \in DOMAIN rules : rules[i].pattern = vault_key_lower}
      partial == partial_match(rules, vault_key_lower)
  IN IF direct # {}
       THEN [field |-> rules[CHOOSE i \in direct : TRUE].field, matched |-> TRUE]
     ELSE IF partial # 0
       THEN [field |-> rules[partial].field, matched |-> TRUE]
     ELSE [field |-> title(replace_underscores(vault_key)), matched |-> FALSE]

\* map_fields(vault_data, template_id): vault_data as the list of its items
RECURSIVE map_fields_from(_, _, _, _)
map_fields_from(rules, items, mapped, skipped) ==
  IF items = <<>> THEN [mapped |-> mapped, skipped |-> skipped]
  ELSE LET item == Head(items)
           target == target_of(rules, item.key)
       IN map_fields_from(rules, Tail(items),
                          SetItem(mapped, target.field, str(item.value)),
                          IF target.matched THEN skipped
                          ELSE Append(skipped, item.key))

map_fields(rules, vault_data) == map_fields_from(rules, vault_data, EmptyDict, <<>>)

\* the data of a secret: items of distinct keys, in the order of the dict
VaultDatas ==
  {d \in UNION {[1..k -> [key : VaultKeys, value : Values]] : k \in 0..MaxFields} :
     \A i, j \in DOMAIN d : i # j => d[i].key # d[j].key}

\* map_fields(vault_data, template_id) on a migrator made without field_mappings
MapFields ==
  /\ tool_call.op = "vault_data"
  /\ tool_call' = [op |-> "map_fields", input |-> tool_call.input,
                   output |-> map_fields(DEFAULT_FIELD_MAPPINGS, tool_call.input)]
  /\ UNCHANGED <<rotVars, syncVars>>

InitMap ==
  /\ tool_call \in {[op |-> "vault_data", input |-> d] : d \in VaultDatas}
  /\ RotationIdle
  /\ SyncIdle

NextMap == MapFields

SpecMap == InitMap /\ [][NextMap]_vars

\* --------------------------------------- vault_to_delinea: recommend_template
\* the rules, in the order of the dict
TEMPLATE_RECOMMENDATIONS ==
  <<[pattern |-> <<"d", "a", "t", "a", "b", "a", "s", "e">>, template_id |-> 3],
    [pattern |-> <<"d", "b">>, template_id |-> 3],
    [pattern |-> <<"m", "y", "s", "q", "l">>, template_id |-> 3],
    [pattern |-> <<"p", "o", "s", "t", "g", "r", "e", "s">>, template_id |-> 3],
    [pattern |-> <<"s", "q", "l">>, template_id |-> 3],
    [pattern |-> <<"l", "i", "n", "u", "x">>, template_id |-> 2],
    [pattern |-> <<"u", "n", "i", "x">>, template_id |-> 2],
    [pattern |-> <<"s", "s", "h">>, template_id |-> 2],
    [pattern |-> <<"w", "i", "n", "d", "o", "w", "s">>, template_id |-> 1],
    [pattern |-> <<"a", "d">>, template_id |-> 1],
    [pattern |-> <<"d", "o", "m", "a", "i", "n">>, template_id |-> 1],
    [pattern |-> <<"a", "p", "i">>, template_id |-> 5],
    [pattern |-> <<"k", "e", "y">>, template_id |-> 5],
    [pattern |-> <<"t", "o", "k", "e", "n">>, template_id |-> 5],
    [pattern |-> <<"w", "e", "b">>, template_id |-> 4],
    [pattern |-> <<"h", "t", "t", "p">>, template_id |-> 4]>>

\* the template IDs of the comments: Windows Account (the default), Unix
\* Account (SSH), Database, API Key
WindowsAccount == 1
UnixAccount == 2
DatabaseTemplate == 3
ApiKeyTemplate == 5

\* "_".join(keys)
RECURSIVE join(_)
join(keys) ==
  IF keys = <<>> THEN <<>>
  ELSE IF Len(keys) = 1 THEN keys[1]
  ELSE keys[1] \o <<"_">> \o join(Tail(keys))

\* the checks of the data fields taken from the last to the first
data_fields_template_ssh_first(data_keys) ==
  LET has(k) == \E i \in DOMAIN data_keys : data_keys[i] = k
  IN IF has(<<"p", "r", "i", "v", "a", "t", "e", "_", "k", "e", "y">>) \/ contains(<<"s", "s", "h">>, join(data_keys))
       THEN UnixAccount
     ELSE IF has(<<"c", "o", "n", "n", "e", "c", "t", "i", "o", "n", "_", "s", "t", "r", "i", "n", "g">>) \/ has(<<"d", "a", "t", "a", "b", "a", "s", "e">>)
       THEN DatabaseTemplate
     ELSE IF has(<<"a", "p", "i", "_", "k", "e", "y">>) \/ has(<<"a", "p", "i", "-", "k", "e", "y">>)
       THEN ApiKeyTemplate
     ELSE WindowsAccount

\* the three `if`s on data_keys, and the default
data_fields_template(data_keys) ==
  LET has(k) == \E i \in DOMAIN data_keys : data_keys[i] = k
  IN IF has(<<"a", "p", "i", "_", "k", "e", "y">>) \/ has(<<"a", "p", "i", "-", "k", "e", "y">>)
       THEN ApiKeyTemplate
     ELSE IF has(<<"c", "o", "n", "n", "e", "c", "t", "i", "o", "n", "_", "s", "t", "r", "i", "n", "g">>) \/ has(<<"d", "a", "t", "a", "b", "a", "s", "e">>)
       THEN DatabaseTemplate
     ELSE IF has(<<"p", "r", "i", "v", "a", "t", "e", "_", "k", "e", "y">>) \/ contains(<<"s", "s", "h">>, join(data_keys))
       THEN UnixAccount
     ELSE WindowsAccount

\* recommend_template(vault_path, data): data as the list of its keys
recommend_template(vault_path, data) ==
  LET path_lower == lower(vault_path)
      matches == {i \in DOMAIN TEMPLATE_RECOMMENDATIONS :
                    contains(TEMPLATE_RECOMMENDATIONS[i].pattern, path_lower)}
      data_keys == [i \in DOMAIN data |-> lower(data[i])]
  IN IF matches # {}
       THEN TEMPLATE_RECOMMENDATIONS[
              CHOOSE i \in matches : \A j \in matches : i <= j].template_id
     ELSE data_fields_template(data_keys)

\* the paths of the secrets and the keys of their data
VaultPaths ==
  {<<"s", "e", "c", "r", "e", "t", "/", "p", "r", "o", "d", "/", "D", "b">>,
   <<"s", "e", "c", "r", "e", "t", "/", "a", "p", "p", "/", "A", "P", "I", "-", "t", "o", "k", "e", "n">>,
   <<"k", "v", "/", "s", "s", "h", "-", "d", "a", "t", "a", "b", "a", "s", "e">>,
   <<"k", "v", "/", "w", "e", "b", "/", "s", "q", "l">>,
   <<"k", "v", "/", "a", "p", "p", "1">>,
   <<"K", "V", "/", "L", "I", "N", "U", "X">>,
   <<"k", "v", "/", "m", "i", "s", "c">>}
DataKeys ==
  {<<"a", "p", "i", "_", "k", "e", "y">>,
   <<"A", "P", "I", "-", "K", "E", "Y">>,
   <<"c", "o", "n", "n", "e", "c", "t", "i", "o", "n", "_", "s", "t", "r", "i", "n", "g">>,
   <<"D", "a", "t", "a", "b", "a", "s", "e">>,
   <<"p", "r", "i", "v", "a", "t", "e", "_", "k", "e", "y">>,
   <<"s", "s", "h", "_", "u", "s", "e", "r">>,
   <<"p", "a", "s", "s", "w", "o", "r", "d">>}

\* the keys of the data of a secret, in the order of the dict
KeyLists ==
  {d \in UNION {[1..k -> DataKeys] : k \in 0..MaxFields} :
     \A i, j \in DOMAIN d : i # j => d[i] # d[j]}

\* recommend_template(vault_path, data)
RecommendTemplate ==
  /\ tool_call.op = "vault_secret"
  /\ tool_call' = [op |-> "recommend_template", input |-> tool_call.input,
                   output |-> recommend_template(tool_call.input.vault_path,
                                                 tool_call.input.data)]
  /\ UNCHANGED <<rotVars, syncVars>>

InitRecommend ==
  /\ tool_call \in {[op |-> "vault_secret",
                      input |-> [vault_path |-> p, data |-> d]] :
                        p \in VaultPaths, d \in KeyLists}
  /\ RotationIdle
  /\ SyncIdle

NextRecommend == RecommendTemplate

SpecRecommend == InitRecommend /\ [][NextRecommend]_vars

\* ------------------------------------------------- migrate_batch, both ways
\* str.replace(a, b) of one character by another
replace_char(s, a, b) == [i \in DOMAIN s |-> IF s[i] = a THEN b ELSE s[i]]

\* str.strip(c)
RECURSIVE strip(_, _)
strip(s, c) ==
  IF s # <<>> /\ Head(s) = c THEN strip(Tail(s), c)
  ELSE IF s # <<>> /\ s[Len(s)] = c THEN strip(SubSeq(s, 1, Len(s) - 1), c)
  ELSE s

\* error and delinea_secret_id of a MigrationResult that has none
NoError == "None"
NoSecretId == 0

\* the paths of a batch, and the data Vault holds under them
MigrationPaths ==
  {<<"s", "e", "c", "r", "e", "t", "/", "p", "r", "o", "d", "/", "D", "b">>, <<"k", "v", "/", "m", "i", "s", "c">>, <<"/", "k", "v", "/", "a", "p", "p", "1", "/">>}
VaultDataAt(path) ==
  CASE path = <<"s", "e", "c", "r", "e", "t", "/", "p", "r", "o", "d", "/", "D", "b">> ->
         <<[key |-> <<"P", "a", "s", "s", "w", "o", "r", "d">>, value |-> 1],
           [key |-> <<"h", "o", "s", "t", "n", "a", "m", "e">>, value |-> 2]>>
    [] path = <<"k", "v", "/", "m", "i", "s", "c">> -> <<[key |-> <<"A", "P", "I", "_", "K", "E", "Y">>, value |-> 1]>>
    [] OTHER -> <<[key |-> <<"c", "o", "l", "o", "r">>, value |-> 2]>>

\* MigrationResult of vault_to_delinea
VaultMigrationResult(source_path, target_name, success, error, mapped_fields, skipped_fields, delinea_secret_id) ==
  [source_path |-> source_path, target_name |-> target_name,
   success |-> success, error |-> error, mapped_fields |-> mapped_fields,
   skipped_fields |-> skipped_fields, delinea_secret_id |-> delinea_secret_id]

\* VaultToDelineaMigrator.migrate_secret(vault_path, delinea_folder_id,
\* dry_run=dry_run): `present` are the paths Vault holds a secret under,
\* `delinea` the secrets created in Delinea, which answers (delinea_up) or
\* raises on every request. The result, and Delinea after the call.
vault_migrate_secret(present, delinea, delinea_up, vault_path, dry_run) ==
  IF vault_path \notin present
    THEN [delinea |-> delinea,
          result |-> VaultMigrationResult(vault_path, vault_path, FALSE,
                       "InvalidPath", EmptyDict, <<>>, NoSecretId)]
  ELSE
    LET vault_data == VaultDataAt(vault_path)
        target_name == strip(replace_char(vault_path, "/", "-"), "-")
        template_id == recommend_template(vault_path,
                         [i \in DOMAIN vault_data |-> vault_data[i].key])
        fields == map_fields(DEFAULT_FIELD_MAPPINGS, vault_data)
    IN IF ~dry_run /\ ~delinea_up
         THEN [delinea |-> delinea,
               result |-> VaultMigrationResult(vault_path, vault_path, FALSE,
                            "HTTPError", EmptyDict, <<>>, NoSecretId)]
       ELSE IF ~dry_run
         THEN [delinea |-> Append(delinea,
                             [id |-> Len(delinea) + 1, name |-> target_name,
                              template_id |-> template_id,
                              fields |-> fields.mapped]),
               result |-> VaultMigrationResult(vault_path, target_name, TRUE,
                            NoError, fields.mapped, fields.skipped,
                            Len(delinea) + 1)]
       ELSE [delinea |-> delinea,
             result |-> VaultMigrationResult(vault_path, target_name, TRUE,
                          NoError, fields.mapped, fields.skipped, NoSecretId)]

\* MigrationReport, without its wall-clock fields
MigrationReport(total_secrets, dry_run) ==
  [total_secrets |-> total_secrets, successful |-> 0, failed |-> 0,
   results |-> <<>>, dry_run |-> dry_run]

\* a loop that leaves the failed results out of the list
report_result_of_success(report, result) ==
  [report EXCEPT !.results = IF result.success THEN Append(@, result) ELSE @,
                 !.successful = IF result.success THEN @ + 1 ELSE @,
                 !.failed = IF result.success THEN @ ELSE @ + 1]

\* the body of the loop of migrate_batch after migrate_secret
report_result(report, result) ==
  [report EXCEPT !.results = Append(@, result),
                 !.successful = IF result.success THEN @ + 1 ELSE @,
                 !.failed = IF result.success THEN @ ELSE @ + 1]

\* the loop of VaultToDelineaMigrator.migrate_batch: raised is set when
\* progress_callback raised, which ends the loop and the call
RECURSIVE vault_migrate_loop(_, _, _, _, _, _, _)
vault_migrate_loop(present, delinea, delinea_up, vault_paths, dry_run, callback, report) ==
  IF vault_paths = <<>>
    THEN [delinea |-> delinea, report |-> report, raised |-> FALSE]
  ELSE LET out == vault_migrate_secret(present, delinea, delinea_up,
                                        Head(vault_paths), dry_run)
           next == report_result(report, out.result)
       IN IF callback = "raises"
            THEN [delinea |-> out.delinea, report |-> next, raised |-> TRUE]
          ELSE vault_migrate_loop(present, out.delinea, delinea_up,
                                  Tail(vault_paths), dry_run, callback, next)

\* VaultToDelineaMigrator.migrate_batch
vault_migrate_batch(present, delinea_up, vault_paths, dry_run, callback) ==
  vault_migrate_loop(present, <<>>, delinea_up, vault_paths, dry_run, callback,
                     MigrationReport(Len(vault_paths), dry_run))

\* the rules of delinea_to_vault, in the order of the dicts
DELINEA_FIELD_MAPPINGS ==
  <<[field |-> <<"P", "a", "s", "s", "w", "o", "r", "d">>, key |-> <<"p", "a", "s", "s", "w", "o", "r", "d">>],
    [field |-> <<"U", "s", "e", "r", "n", "a", "m", "e">>, key |-> <<"u", "s", "e", "r", "n", "a", "m", "e">>],
    [field |-> <<"M", "a", "c", "h", "i", "n", "e">>, key |-> <<"h", "o", "s", "t">>],
    [field |-> <<"S", "e", "r", "v", "e", "r">>, key |-> <<"s", "e", "r", "v", "e", "r">>],
    [field |-> <<"D", "a", "t", "a", "b", "a", "s", "e">>, key |-> <<"d", "a", "t", "a", "b", "a", "s", "e">>],
    [field |-> <<"U", "R", "L">>, key |-> <<"u", "r", "l">>],
    [field |-> <<"E", "n", "d", "p", "o", "i", "n", "t", " ", "U", "R", "L">>, key |-> <<"e", "n", "d", "p", "o", "i", "n", "t">>],
    [field |-> <<"A", "P", "I", " ", "K", "e", "y">>, key |-> <<"a", "p", "i", "_", "k", "e", "y">>],
    [field |-> <<"A", "P", "I", " ", "S", "e", "c", "r", "e", "t">>, key |-> <<"a", "p", "i", "_", "s", "e", "c", "r", "e", "t">>],
    [field |-> <<"C", "l", "i", "e", "n", "t", " ", "I", "D">>, key |-> <<"c", "l", "i", "e", "n", "t", "_", "i", "d">>],
    [field |-> <<"C", "l", "i", "e", "n", "t", " ", "S", "e", "c", "r", "e", "t">>, key |-> <<"c", "l", "i", "e", "n", "t", "_", "s", "e", "c", "r", "e", "t">>],
    [field |-> <<"P", "r", "i", "v", "a", "t", "e", " ", "K", "e", "y">>, key |-> <<"p", "r", "i", "v", "a", "t", "e", "_", "k", "e", "y">>],
    [field |-> <<"N", "o", "t", "e", "s">>, key |-> <<"n", "o", "t", "e", "s">>],
    [field |-> <<"D", "o", "m", "a", "i", "n">>, key |-> <<"d", "o", "m", "a", "i", "n">>],
    [field |-> <<"P", "o", "r", "t">>, key |-> <<"p", "o", "r", "t">>]>>

PATH_RECOMMENDATIONS ==
  <<[template_name |-> <<"W", "i", "n", "d", "o", "w", "s", " ", "A", "c", "c", "o", "u", "n", "t">>, base_path |-> <<"s", "e", "c", "r", "e", "t", "/", "w", "i", "n", "d", "o", "w", "s">>],
    [template_name |-> <<"U", "n", "i", "x", " ", "A", "c", "c", "o", "u", "n", "t", " ", "(", "S", "S", "H", ")">>, base_path |-> <<"s", "e", "c", "r", "e", "t", "/", "l", "i", "n", "u", "x">>],
    [template_name |-> <<"D", "a", "t", "a", "b", "a", "s", "e", " ", "(", "S", "Q", "L", " ", "S", "e", "r", "v", "e", "r", ")">>, base_path |-> <<"s", "e", "c", "r", "e", "t", "/", "d", "a", "t", "a", "b", "a", "s", "e">>],
    [template_name |-> <<"W", "e", "b", " ", "P", "a", "s", "s", "w", "o", "r", "d">>, base_path |-> <<"s", "e", "c", "r", "e", "t", "/", "w", "e", "b">>],
    [template_name |-> <<"A", "P", "I", " ", "K", "e", "y">>, base_path |-> <<"s", "e", "c", "r", "e", "t", "/", "a", "p", "i">>]>>

\* the secrets of Delinea, by ID
DelineaIds == {1, 2, 3}
DelineaSecretAt(secret_id) ==
  CASE secret_id = 1 ->
         [name |-> <<"P", "r", "o", "d", " ", "D", "B">>, template_name |-> <<"D", "a", "t", "a", "b", "a", "s", "e", " ", "(", "S", "Q", "L", " ", "S", "e", "r", "v", "e", "r", ")">>,
          fields |-> <<[key |-> <<"P", "a", "s", "s", "w", "o", "r", "d">>, value |-> 1],
                       [key |-> <<"C", "u", "s", "t", "o", "m", "-", "F", "i", "e", "l", "d", " ", "X">>, value |-> 2]>>]
    [] secret_id = 2 ->
         [name |-> <<"C", "O", "R", "P", "\\", "s", "v", "c">>, template_name |-> <<"W", "i", "n", "d", "o", "w", "s", " ", "A", "c", "c", "o", "u", "n", "t">>,
          fields |-> <<[key |-> <<"U", "s", "e", "r", "n", "a", "m", "e">>, value |-> 1]>>]
    [] OTHER ->
         [name |-> <<"M", "i", "s", "c">>, template_name |-> <<"O", "t", "h", "e", "r">>,
          fields |-> <<>>]

\* recommend_path(template_name, secret_name)
recommend_path(template_name, secret_name) ==
  LET known == {i \in DOMAIN PATH_RECOMMENDATIONS :
                  PATH_RECOMMENDATIONS[i].template_name = template_name}
      base_path == IF known # {}
                     THEN PATH_RECOMMENDATIONS[CHOOSE i \in known : TRUE].base_path
                     ELSE <<"s", "e", "c", "r", "e", "t", "/", "i", "m", "p", "o", "r", "t", "e", "d">>
      safe_name == replace_char(replace_char(lower(secret_name), " ", "-"),
                                "\\", "-")
  IN base_path \o <<"/">> \o safe_name

\* DelineaToVaultMigrator.map_fields: the key of a rule, else the field name
\* in snake case
RECURSIVE delinea_map_fields(_, _)
delinea_map_fields(items, mapped) ==
  IF items = <<>> THEN mapped
  ELSE LET delinea_key == Head(items).key
           known == {i \in DOMAIN DELINEA_FIELD_MAPPINGS :
                       DELINEA_FIELD_MAPPINGS[i].field = delinea_key}
           vault_key ==
             IF known # {}
               THEN DELINEA_FIELD_MAPPINGS[CHOOSE i \in known : TRUE].key
               ELSE replace_char(replace_char(lower(delinea_key), " ", "_"),
                                 "-", "_")
       IN delinea_map_fields(Tail(items),
                             SetItem(mapped, vault_key, Head(items).value))

\* MigrationResult of delinea_to_vault
DelineaMigrationResult(source_id, source_name, target_path, success, error, mapped_fields) ==
  [source_id |-> source_id, source_name |-> source_name,
   target_path |-> target_path, success |-> success, error |-> error,
   mapped_fields |-> mapped_fields]

\* DelineaToVaultMigrator.migrate_secret(secret_id, dry_run=dry_run): `present`
\* are the IDs Delinea holds a secret under, `vault` the secrets written to
\* Vault, which answers (vault_up) or raises on every request
delinea_migrate_secret(present, vault, vault_up, secret_id, dry_run) ==
  IF secret_id \notin present
    THEN [vault |-> vault,
          result |-> DelineaMigrationResult(secret_id,
                       <<"S", "e", "c", "r", "e", "t", " ", Digit(secret_id)>>,
                       <<"u", "n", "k", "n", "o", "w", "n">>, FALSE, "not found", EmptyDict)]
  ELSE
    LET secret == DelineaSecretAt(secret_id)
        target_path == recommend_path(secret.template_name, secret.name)
        mapped_fields == delinea_map_fields(secret.fields, EmptyDict)
    IN IF ~dry_run /\ ~vault_up
         THEN [vault |-> vault,
               result |-> DelineaMigrationResult(secret_id,
                            <<"S", "e", "c", "r", "e", "t", " ", Digit(secret_id)>>,
                            <<"u", "n", "k", "n", "o", "w", "n">>, FALSE, "VaultError", EmptyDict)]
       ELSE [vault |-> IF dry_run THEN vault
                       ELSE Append(vault, [path |-> target_path,
                                           data |-> mapped_fields]),
             result |-> DelineaMigrationResult(secret_id, secret.name,
                          target_path, TRUE, NoError, mapped_fields)]

\* the loop of DelineaToVaultMigrator.migrate_batch
RECURSIVE delinea_migrate_loop(_, _, _, _, _, _, _)
delinea_migrate_loop(present, vault, vault_up, secret_ids, dry_run, callback, report) ==
  IF secret_ids = <<>>
    THEN [vault |-> vault, report |-> report, raised |-> FALSE]
  ELSE LET out == delinea_migrate_secret(present, vault, vault_up,
                                          Head(secret_ids), dry_run)
           next == report_result(report, out.result)
       IN IF callback = "raises"
            THEN [vault |-> out.vault, report |-> next, raised |-> TRUE]
          ELSE delinea_migrate_loop(present, out.vault, vault_up,
                                    Tail(secret_ids), dry_run, callback, next)

\* DelineaToVaultMigrator.migrate_batch
delinea_migrate_batch(present, vault_up, secret_ids, dry_run, callback) ==
  delinea_migrate_loop(present, <<>>, vault_up, secret_ids, dry_run, callback,
                       MigrationReport(Len(secret_ids), dry_run))

\* progress_callback: none given, one that returns, one that raises
Callbacks == {"none", "returns", "raises"}

\* the batches: lists of paths, lists of IDs
PathLists == UNION {[1..k -> MigrationPaths] : k \in 0..MaxBatch}
IdLists == UNION {[1..k -> DelineaIds] : k \in 0..MaxBatch}

\* VaultToDelineaMigrator.migrate_batch(vault_paths, folder, dry_run=...,
\* progress_callback=...)
VaultMigrateBatch ==
  /\ tool_call.op = "vault_batch"
  /\ LET call == tool_call.input
     IN tool_call' = [op |-> "vault_to_delinea.migrate_batch", input |-> call,
                      output |-> vault_migrate_batch(call.present, call.target_up,
                                   call.items, call.dry_run, call.callback)]
  /\ UNCHANGED <<rotVars, syncVars>>

\* DelineaToVaultMigrator.migrate_batch(secret_ids, dry_run=...,
\* progress_callback=...)
DelineaMigrateBatch ==
  /\ tool_call.op = "delinea_batch"
  /\ LET call == tool_call.input
     IN tool_call' = [op |-> "delinea_to_vault.migrate_batch", input |-> call,
                      output |-> delinea_migrate_batch(call.present, call.target_up,
                                   call.items, call.dry_run, call.callback)]
  /\ UNCHANGED <<rotVars, syncVars>>

\* a batch of either migrator: the secrets its source holds, whether its
\* target answers, the items, dry_run, the callback
InitMigrate ==
  /\ tool_call \in
       {[op |-> "vault_batch",
         input |-> [present |-> p, target_up |-> u, items |-> l,
                    dry_run |-> d, callback |-> c]] :
           p \in SUBSET MigrationPaths, u \in BOOLEAN, l \in PathLists,
           d \in BOOLEAN, c \in Callbacks}
       \cup
       {[op |-> "delinea_batch",
         input |-> [present |-> p, target_up |-> u, items |-> l,
                    dry_run |-> d, callback |-> c]] :
           p \in SUBSET DelineaIds, u \in BOOLEAN, l \in IdLists,
           d \in BOOLEAN, c \in Callbacks}
  /\ RotationIdle
  /\ SyncIdle

NextMigrate ==
  \/ VaultMigrateBatch
  \/ DelineaMigrateBatch

SpecMigrate == InitMigrate /\ [][NextMigrate]_vars

\* ================================================================ claims
\* the last result recorded for secret n (NoResult: none)
NoResult == [absent |-> TRUE]
LastResultOf(hist, n) ==
  LET idx == {i \in 1..Len(hist) : hist[i].secret_name = n}
  IN IF idx = {} THEN NoResult
     ELSE hist[CHOOSE i \in idx : \A j \in idx : j <= i]

\* an event of the watched secret with the given step was the last call, and
\* the handler accepted it (statusCode 200)
Accepted(step) ==
  /\ last.op = step
  /\ last.secret = watched
  /\ last.code = 200

\* C1: after createSecret, setSecret and a testSecret that failed, in this
\* order, the store holds for the secret the active value it held before
\* createSecret.
C1_ActiveUntouchedAfterFailedTest ==
  rot.stage = "failed" => ActiveValue(aws_secrets, watched) = rot.pre

\* C2: once a testSecret of a rotation has failed, a finishSecret with the same
\* secret and request token records no Success (until a rollback or a new
\* createSecret).
C2_NoSuccessAfterFailedTest ==
  ~ /\ rot.stage \in {"failed", "halted"}
    /\ Accepted("finishSecret")
    /\ last.token = rot.tok
    /\ LastResultOf(rotation_history, watched) # NoResult
    /\ LastResultOf(rotation_history, watched).status = "success"

\* C3: after the four events of a secret were handled in order without error,
\* the last result recorded for the secret is Success and its schedule, if it
\* has one, satisfies next_rotation = last_rotation + rotation_interval_days.
C3_InOrderRotationSucceeds ==
  (Accepted("finishSecret") /\ last.inorder) =>
    /\ LastResultOf(rotation_history, watched) # NoResult
    /\ LastResultOf(rotation_history, watched).status = "success"
    /\ rotation_schedules[watched] # NoSchedule =>
         rotation_schedules[watched].next_rotation =
           rotation_schedules[watched].last_rotation
             + rotation_schedules[watched].rotation_interval_days

\* C5: a step of a rotation is accepted only as the next step of that
\* rotation: after every earlier step of it succeeded, and not again.
C5_StepsInOrder ==
  (last.op \in Steps /\ last.secret = watched /\ last.code = 200) => last.inorder

\* C6: an accepted createSecret leaves the active value of every secret in the
\* store as it was.
C6_CreateKeepsActive ==
  [][(last'.op = "createSecret" /\ last'.code = 200) =>
       \A n \in SecretNames :
         ActiveValue(aws_secrets', n) = ActiveValue(aws_secrets, n)]_vars

\* C7: a createSecret that repeats the request token of the secret's rotation
\* in progress stores no new value.
C7_CreateIdempotent ==
  [][(/\ rot.stage # "none"
      /\ last'.op = "createSecret"
      /\ last'.secret = watched
      /\ last'.token = rot.tok
      /\ last'.code = 200) =>
       aws_secrets' = aws_secrets]_vars

\* ------------------------------------------------------------ sync claims
\* the last step was a sync_secret call with these arguments
Synced(direction, conflict_resolution, dry_run) ==
  sync_last'.call = SyncCall(direction, conflict_resolution, dry_run)

BothPresent(n) ==
  check_vault_secret_exists(CurrentSync, n) /\ check_aws_secret_exists(CurrentSync, n)

\* C4: a sync_secret call with dry_run = True, whatever its direction and
\* conflict policy and whichever stores hold the secret, makes no create, update
\* or write call, leaves both stores as they are and appends no audit entry.
C4_DryRunWritesNothing ==
  [][sync_last'.call.dry_run =>
       /\ sync_last'.writes = 0
       /\ vault_secrets' = vault_secrets
       /\ sync_aws' = sync_aws
       /\ audit_log' = audit_log]_vars

\* a dry run of a bidirectional sync of a secret that both stores hold has
\* chosen the side to sync from and returned without the write
C4_Witness ==
  /\ sync_last.call = SyncCall("bidirectional", "use_newest", TRUE)
  /\ sync_last.result.status = "skipped"
  /\ sync_last.result.message = "Dry run: Would update secret in Vault"

\* C8: a bidirectional sync with policy use_newest of a secret that both
\* stores hold and give a date for writes the copy of the store with the
\* strictly later date over the other one; of two copies of the same date one
\* is written over the other.
C8_NewestSideWins ==
  [][\A n \in SyncedNames :
       (/\ Synced("bidirectional", "use_newest", FALSE)
        /\ vault_client = "flat"
        /\ BothPresent(n))
       =>
       /\ sync_last'.result.status = "success"
       /\ vault_secrets[n].created > sync_aws[n].created =>
            /\ sync_last'.result.direction = "vault_to_aws"
            /\ sync_aws'[n].secret_value = vault_secrets[n].data
            /\ vault_secrets' = vault_secrets
       /\ vault_secrets[n].created < sync_aws[n].created =>
            /\ sync_last'.result.direction = "aws_to_vault"
            /\ vault_secrets'[n].data = sync_aws[n].secret_value
            /\ sync_aws' = sync_aws]_vars

\* C9: a bidirectional sync of a secret that both stores hold, under a policy
\* other than use_newest, returns the status conflict, makes no create, update
\* or write call and leaves both stores as they are.
C9_ConflictWithoutWrite ==
  [][\A n \in SyncedNames :
       (/\ sync_last'.call.direction = "bidirectional"
        /\ sync_last'.call.conflict_resolution # "use_newest"
        /\ BothPresent(n))
       =>
       /\ sync_last'.result.status = "conflict"
       /\ sync_last'.writes = 0
       /\ vault_secrets' = vault_secrets
       /\ sync_aws' = sync_aws]_vars

\* a bidirectional sync under overwrite_destination, not a dry run, has found
\* two differing copies in a real Vault and in AWS and returned conflict
C9_Witness ==
  /\ sync_last.call = SyncCall("bidirectional", "overwrite_destination", FALSE)
  /\ sync_last.result.status = "conflict"
  /\ vault_client # "none"
  /\ \E n \in SyncedNames :
       /\ vault_secrets[n] # NoSecret
       /\ sync_aws[n] # NoSecret
       /\ vault_secrets[n].data # sync_aws[n].secret_value

\* C10: every sync_secret call other than a dry run that returns skipped
\* appends exactly one audit entry, of operation "sync", with the direction of
\* the call or of the sync it was handed to and with the status it returned.
C10_EveryOutcomeAudited ==
  [][(/\ sync_last'.call.direction \in Directions
      /\ ~(sync_last'.call.dry_run /\ sync_last'.result.status = "skipped"))
     =>
     /\ Len(audit_log') = Len(audit_log) + 1
     /\ SubSeq(audit_log', 1, Len(audit_log)) = audit_log
     /\ audit_log'[Len(audit_log')].operation = "sync"
     /\ audit_log'[Len(audit_log')].status = sync_last'.result.status
     /\ audit_log'[Len(audit_log')].direction
          \in {sync_last'.call.direction, sync_last'.result.direction}]_vars

\* the store a one-directional sync reads from does not hold the secret
SourceAbsent(n, direction) ==
  \/ direction = "vault_to_aws" /\ vault_client # "none" /\ vault_secrets[n] = NoSecret
  \/ direction = "aws_to_vault" /\ sync_aws[n] = NoSecret

\* the messages that say the secret was not found
NotFoundMessages == {"Secret not found in Vault", "Secret not found"}

\* C11: a one-directional sync, in either direction, of a secret its source
\* store does not hold returns failed with a not-found message, makes no
\* create, update or write call, leaves both stores as they are and appends no
\* audit entry.
C11_AbsentSourceFails ==
  [][\A n \in SyncedNames :
       (/\ sync_last'.call.direction \in {"vault_to_aws", "aws_to_vault"}
        /\ SourceAbsent(n, sync_last'.call.direction))
       =>
       /\ sync_last'.result.status = "failed"
       /\ sync_last'.result.message \in NotFoundMessages
       /\ sync_last'.writes = 0
       /\ vault_secrets' = vault_secrets
       /\ sync_aws' = sync_aws
       /\ audit_log' = audit_log]_vars

\* a sync from AWS, not a dry run, of a secret that only Vault holds has failed
C11_Witness ==
  /\ sync_last.call = SyncCall("aws_to_vault", "overwrite_destination", FALSE)
  /\ sync_last.result.status = "failed"
  /\ sync_last.result.message = "Secret not found"
  /\ vault_client # "none"
  /\ \E n \in SyncedNames : sync_aws[n] = NoSecret /\ vault_secrets[n] # NoSecret

\* C12: every sync_secret call other than a dry run that returns success, in
\* either direction, returns a result whose vault_version and aws_version are
\* both set.
C12_SuccessHasBothVersions ==
  (/\ sync_last.result.status = "success"
   /\ ~sync_last.call.dry_run)
  => /\ sync_last.result.vault_version # NoVersion
     /\ sync_last.result.aws_version # NoVersion

\* the store a one-directional sync reads from holds the secret, and the
\* store it writes to is a real one
SourcePresent(n, direction) ==
  \/ direction = "vault_to_aws" /\ (vault_client = "none" \/ vault_secrets[n] # NoSecret)
  \/ direction = "aws_to_vault" /\ vault_client # "none" /\ sync_aws[n] # NoSecret

SourcePayload(n, direction) ==
  IF direction = "aws_to_vault" THEN sync_aws[n].secret_value
  ELSE IF vault_client = "none" THEN MockData
  ELSE vault_secrets[n].data

\* NoSecret, or the payload the destination of the sync holds
DestinationPayload(vault, aws, n, direction) ==
  IF direction = "aws_to_vault"
    THEN IF vault[n] = NoSecret THEN NoSecret ELSE vault[n].data
    ELSE IF aws[n] = NoSecret THEN NoSecret ELSE aws[n].secret_value

\* C13: a one-directional sync, not a dry run, of a secret its source holds:
\* when the destination does not hold the secret it succeeds and the
\* destination then holds the source's payload; when the destination holds it
\* and the policy is skip the result is skipped and the destination is as it
\* was; under any other policy it succeeds and the destination then holds the
\* source's payload.
C13_OneDirectionalWrites ==
  [][\A n \in SyncedNames :
       LET direction == sync_last'.call.direction
           before == DestinationPayload(vault_secrets, sync_aws, n, direction)
           after == DestinationPayload(vault_secrets', sync_aws', n, direction)
       IN
       (/\ direction \in {"vault_to_aws", "aws_to_vault"}
        /\ ~sync_last'.call.dry_run
        /\ SourcePresent(n, direction))
       =>
       IF before # NoSecret /\ sync_last'.call.conflict_resolution = "skip"
         THEN sync_last'.result.status = "skipped" /\ after = before
         ELSE /\ sync_last'.result.status = "success"
              /\ after = SourcePayload(n, direction)]_vars

\* sync_secret of the i-th name of the last batch, on its own, with the
\* arguments of the batch, in the state the batch started from
SyncedAlone(i, t) ==
  sync_secret(CurrentSync, batch_last'.secret_names[i], batch_last'.call.direction,
              batch_last'.call.conflict_resolution, batch_last'.call.dry_run, t)

\* C14: batch_sync returns one result per name of its list, the i-th result
\* for the i-th name, each of status success, failed, skipped or conflict;
\* whatever the results of the other items, a name that is in the list once
\* gets the result, and its stores the contents, that sync_secret gives it on
\* its own.
C14_BatchResultPerName ==
  [][batch_last' # NoBatchYet =>
       LET names == batch_last'.secret_names
           results == batch_last'.results
       IN /\ Len(results) = Len(names)
          /\ \A i \in 1..Len(names) :
               /\ results[i].secret_name = names[i]
               /\ results[i].status \in {"success", "failed", "skipped", "conflict"}
          /\ \E t \in Instants :
               \A i \in 1..Len(names) :
                 (\A j \in 1..Len(names) : names[j] = names[i] => j = i)
                 => /\ results[i] = SyncedAlone(i, t).result
                    /\ vault_secrets'[names[i]] = SyncedAlone(i, t).vault[names[i]]
                    /\ sync_aws'[names[i]] = SyncedAlone(i, t).aws[names[i]]]_vars

\* a batch from AWS to a real Vault whose first item failed, the store call
\* having raised, and whose second item wrote its secret to Vault
C14_Witness ==
  /\ batch_last.call = SyncCall("aws_to_vault", "overwrite_destination", FALSE)
  /\ Len(batch_last.results) = 2
  /\ batch_last.results[1].status = "failed"
  /\ batch_last.results[1].message = "Secret not found"
  /\ batch_last.results[2].status = "success"
  /\ vault_client = "flat"
  /\ vault_secrets[batch_last.secret_names[2]] # NoSecret
  /\ Len(audit_log) = 1

\* C15: a rotation event whose Step is none of createSecret, setSecret,
\* testSecret and finishSecret is answered with statusCode 500 and leaves the
\* rotation history, the schedules and the store as they were.
C15_UnknownStepRejected ==
  [][UnknownStep =>
       /\ last'.code = 500
       /\ last'.op \notin Steps
       /\ rotation_history' = rotation_history
       /\ rotation_schedules' = rotation_schedules
       /\ aws_secrets' = aws_secrets]_vars

\* an event with Step deleteSecret was answered 500 by a handler that has a
\* schedule for the event's secret and a rotation of it in its history
C15_Witness ==
  /\ last.op = "deleteSecret"
  /\ last.secret = watched
  /\ last.code = 500
  /\ rotation_history # <<>>
  /\ \E n \in SecretNames : rotation_schedules[n] # NoSchedule

\* the last call was rollback_rotation of the watched secret and it put a
\* rolled_back result on record
RolledBackWatched ==
  /\ last'.op = "rollback_rotation"
  /\ last'.secret = watched
  /\ Len(rotation_history') = Len(rotation_history) + 1
  /\ rotation_history'[Len(rotation_history')].status = "rolled_back"

\* C16: rollback_rotation puts rolled_back on record only when it has
\* restored a prior version: the secret was rotated away from a value the
\* store held, and after the rollback that value is the active one again.
C16_RolledBackOnlyIfRestored ==
  [][RolledBackWatched =>
       /\ rot.stage # "none"
       /\ rot.pre # 0
       /\ ActiveValue(aws_secrets', watched) = rot.pre]_vars

\* C17: a rolled_back result is put on record for a secret only while the
\* rotation of that secret is failed or successful: its last result on record
\* is failed or success, or its testSecret has just failed. With no rotation
\* on record, with a rotation under way or with rolled_back as the last result
\* the rollback records nothing.
C17_RollbackOnlyAfterRotationEnded ==
  [][RolledBackWatched =>
       \/ rot.stage = "failed"
       \/ /\ LastResultOf(rotation_history, watched) # NoResult
          /\ LastResultOf(rotation_history, watched).status \in {"success", "failed"}
          /\ rot.stage \in {"none", "finishSecret"}]_vars

\* the last call has put a success result for secret n on record
RecordedSuccess(n) ==
  /\ last'.code = 200
  /\ Len(rotation_history') = Len(rotation_history) + 1
  /\ rotation_history'[Len(rotation_history')].secret_name = n
  /\ rotation_history'[Len(rotation_history')].status = "success"

\* C18: the schedule of a secret changes only in a schedule_rotation call for
\* that secret, in a finishSecret event that puts a success for it on record
\* or in a rotate_vault_secret call that does; every other call, createSecret,
\* setSecret, testSecret, events answered 500, failed rotations, rollbacks and
\* status calls among them, leaves every schedule as it was.
C18_ScheduleFrame ==
  [][\A n \in SecretNames :
       rotation_schedules'[n] # rotation_schedules[n] =>
         \/ last'.op = "schedule_rotation" /\ last'.secret = n
         \/ last'.op = "finishSecret" /\ RecordedSuccess(n)
         \/ last'.op = "rotate_vault_secret" /\ RecordedSuccess(n)]_vars

\* a finishSecret event has moved on the schedule of its secret, made at an
\* earlier time, while another secret has a schedule too
C18_Witness ==
  /\ last.op = "finishSecret"
  /\ last.code = 200
  /\ now > 0
  /\ \E n, m \in SecretNames :
       /\ n # m
       /\ rotation_history[Len(rotation_history)].secret_name = n
       /\ rotation_schedules[n] # NoSchedule
       /\ rotation_schedules[n].last_rotation = now
       /\ rotation_schedules[m] # NoSchedule
       /\ rotation_schedules[m].last_rotation = 0

RecentPlaces(hist, n) ==
  LET mine == {i \in 1..Len(hist) : hist[i].secret_name = n}
  IN {i \in mine : Cardinality({j \in mine : j > i}) < RecentRotations}

SuccessesAt(hist, places) ==
  Cardinality({i \in places : hist[i].status = "success"})

\* x * n = k in the reals, for a float x and ints n, k
ExactlyTimes(x, n, k) ==
  IF x.e >= 0 THEN x.m * Pow2(x.e) * n = k ELSE x.m * n = k * Pow2(0 - x.e)

\* |x * n - k| <= k / 2^(FloatBits - 2) in the reals: x * n is k but for the
\* rounding of two float operations
RoundedTimes(x, n, k) ==
  LET scale == IF x.e >= 0 THEN 1 ELSE Pow2(0 - x.e)
      xn == IF x.e >= 0 THEN x.m * Pow2(x.e) * n ELSE x.m * n
      diff == IF xn >= k * scale THEN xn - k * scale ELSE k * scale - xn
  IN diff * Pow2(FloatBits - 2) <= k * scale

\* what get_rotation_status returns but for the success rate, and what it
\* leaves alone
StatusOfRecent(places) ==
  /\ status_last'.rotation_count = Cardinality(places)
  /\ places = {} => status_last'.success_rate = FloatZero
  /\ status_last'.schedule = rotation_schedules[status_last'.secret_name]
  /\ UNCHANGED <<rotation_history, rotation_schedules, aws_secrets>>

\* C20 as stated: get_rotation_status counts the last N <= 5 results of the
\* secret alone, returns success_rate with success_rate * N = successes * 100
\* (0 when N = 0), returns the schedule of the secret and changes no state.
C20_StatusExact ==
  [][last'.op = "get_rotation_status" =>
       LET places == RecentPlaces(rotation_history, status_last'.secret_name)
       IN /\ StatusOfRecent(places)
          /\ ExactlyTimes(status_last'.success_rate, Cardinality(places),
                          100 * SuccessesAt(rotation_history, places))]_vars

\* C20, amended: as above, with success_rate the float (successes / N) * 100:
\* success_rate * N is successes * 100 but for the rounding of the division
\* and of the multiplication, and is exactly that unless N = 3 with one or two
\* successes.
C20_StatusRounded ==
  [][last'.op = "get_rotation_status" =>
       LET places == RecentPlaces(rotation_history, status_last'.secret_name)
           N == Cardinality(places)
           successes == SuccessesAt(rotation_history, places)
       IN /\ StatusOfRecent(places)
          /\ RoundedTimes(status_last'.success_rate, N, 100 * successes)
          /\ (N # 3 \/ successes \in {0, N}) =>
               ExactlyTimes(status_last'.success_rate, N, 100 * successes)]_vars

\* the status of a secret with a schedule and more than five results on
\* record, the oldest a success, the five counted ones not all alike, among
\* results of another secret
C20_Witness ==
  /\ status_last # NoStatus
  /\ status_last.secret_name = <<"db">>
  /\ status_last.rotation_count = RecentRotations
  /\ status_last.schedule # NoSchedule
  /\ Len(ResultsOf(rotation_history, <<"db">>)) > RecentRotations
  /\ ResultsOf(rotation_history, <<"db">>)[1].status = "success"
  /\ status_last.success_rate \notin {FloatZero, FloatTimes(FloatDiv(1, 1), 100)}

C23_PushFailureReported ==
  [][(RotateVaultSecret /\ rotate_last'.push = "update raised") =>
       LET result == rotation_history'[Len(rotation_history')]
       IN /\ result = rotate_last'.result
          /\ ~(result.status = "success" /\ ~result.error)]_vars

\* the first store call of the last sync_secret call, a read or an existence
\* check, was made on a store that answers no call
FirstCallRaised ==
  /\ sync_last # NoResultYet
  /\ \/ sync_last.call.direction = "vault_to_aws" /\ vault_raises
     \/ sync_last.call.direction = "aws_to_vault" /\ aws_raises
     \/ sync_last.call.direction = "bidirectional" /\ (vault_raises \/ aws_raises)

\* C22: a sync_secret call whose read or existence check fails on a store
\* that is unavailable returns a failed result that carries the error of that
\* store, and makes no create, update or write call.
C22_AdapterFailureReported ==
  FirstCallRaised =>
    /\ sync_last.result.status = "failed"
    /\ sync_last.result.message \in
         {m \in {VaultUnavailable, AwsUnavailable} :
            \/ m = VaultUnavailable /\ vault_raises
                 /\ sync_last.call.direction # "aws_to_vault"
            \/ m = AwsUnavailable /\ aws_raises
                 /\ sync_last.call.direction # "vault_to_aws"}
    /\ sync_last.writes = 0

\* C24: the health score of a secret is 100 less one penalty for its age in
\* whole days (40 over 365, else 25 over 180, else 10 over 90, none when
\* last_changed is unknown), less 20 without rotation, less 10 when any of
\* the tags Environment, Owner, Application is missing, and not below 0; the
\* status is excellent from 90, good from 75, fair from 50, else poor.
C24_HealthScore ==
  tool_call.op = "calculate_secret_health_score" =>
    LET m == tool_call.input
        age == IF m.elapsed = NoLastChanged THEN 0 ELSE m.elapsed \div HalfDay
        penalty == CASE age > 365 -> 40
                     [] age > 180 /\ age <= 365 -> 25
                     [] age > 90 /\ age <= 180 -> 10
                     [] OTHER -> 0
        expected == 100 - penalty
                      - (IF m.rotation_enabled THEN 0 ELSE 20)
                      - (IF RequiredTags \subseteq m.tags THEN 0 ELSE 10)
        score == tool_call.output.health_score
    IN /\ score = (IF expected < 0 THEN 0 ELSE expected)
       /\ tool_call.output.status =
            CASE score >= 90 -> "excellent"
              [] score >= 75 /\ score < 90 -> "good"
              [] score >= 50 /\ score < 75 -> "fair"
              [] OTHER -> "poor"

\* the score of a secret 400 days old, without rotation and without tags:
\* 30, poor
C24_Witness ==
  /\ tool_call.op = "calculate_secret_health_score"
  /\ tool_call.input = SecretMetadata(HalfDay * 400, FALSE, {})
  /\ tool_call.output.health_score = 30
  /\ tool_call.output.status = "poor"

\* the field the rules send a key to: that of the rule whose pattern is the
\* key in lower case, else that of the first rule, in the order of the rules,
\* whose pattern is in the key in lower case; NoRule when there is none
NoRule == <<>>
RuleFieldOf(key) ==
  LET k == lower(key)
      rules == DEFAULT_FIELD_MAPPINGS
      direct == {i \in DOMAIN rules : rules[i].pattern = k}
      partial == {i \in DOMAIN rules : contains(rules[i].pattern, k)}
  IN IF direct # {} THEN rules[CHOOSE i \in direct : TRUE].field
     ELSE IF partial # {}
       THEN rules[CHOOSE i \in partial : \A j \in partial : i <= j].field
     ELSE NoRule

\* C25: map_fields sends each key of the data to the field of the rule whose
\* pattern is the key in lower case, else of the first rule in rule order
\* whose pattern is in the key in lower case, whatever the other keys of the
\* data and their order: the field holds the value of the last key sent to it.
C25_MapFieldsByRuleOrder ==
  tool_call.op = "map_fields" =>
    LET data == tool_call.input
        mapped == tool_call.output.mapped
    IN \A i \in DOMAIN data :
         LET field == RuleFieldOf(data[i].key)
             senders == {j \in DOMAIN data : RuleFieldOf(data[j].key) = field}
             latest == CHOOSE j \in senders : \A l \in senders : l <= j
         IN field # NoRule =>
              /\ field \in DOMAIN mapped
              /\ mapped[field] = str(data[latest].value)
              /\ \A j \in DOMAIN tool_call.output.skipped :
                   tool_call.output.skipped[j] # data[i].key

\* data mapped with a key that is a pattern and holds the pattern of an
\* earlier rule ("description", with "ip" in it) and a key that holds the
\* patterns of two rules ("user_pass": "pass" before "user")
C25_Witness ==
  /\ tool_call.op = "map_fields"
  /\ \E i, j \in DOMAIN tool_call.input :
       /\ tool_call.input[i].key = <<"d", "e", "s", "c", "r", "i", "p", "t", "i", "o", "n">>
       /\ tool_call.input[j].key = <<"u", "s", "e", "r", "_", "p", "a", "s", "s">>
  /\ <<"N", "o", "t", "e", "s">> \in DOMAIN tool_call.output.mapped
  /\ <<"P", "a", "s", "s", "w", "o", "r", "d">> \in DOMAIN tool_call.output.mapped

\* the data has a key that is, in lower case, one of the given names
HasKey(data, names) == \E i \in DOMAIN data : lower(data[i]) \in names

\* C26: recommend_template returns the template of the first rule, in rule
\* order, whose pattern is in the path in lower case; with no such rule, the
\* API Key template for data with an API key field, else the Database one for
\* a connection string or database field, else the Unix one for a private key
\* or ssh field, else the default template.
C26_RecommendByRuleOrder ==
  tool_call.op = "recommend_template" =>
    LET path == lower(tool_call.input.vault_path)
        data == tool_call.input.data
        rules == TEMPLATE_RECOMMENDATIONS
        hits == {i \in DOMAIN rules : contains(rules[i].pattern, path)}
    IN tool_call.output =
         CASE hits # {} -> rules[CHOOSE i \in hits : \A j \in hits : i <= j].template_id
           [] hits = {} /\ HasKey(data, {<<"a", "p", "i", "_", "k", "e", "y">>, <<"a", "p", "i", "-", "k", "e", "y">>}) -> 5
           [] hits = {} /\ ~HasKey(data, {<<"a", "p", "i", "_", "k", "e", "y">>, <<"a", "p", "i", "-", "k", "e", "y">>})
                /\ HasKey(data, {<<"c", "o", "n", "n", "e", "c", "t", "i", "o", "n", "_", "s", "t", "r", "i", "n", "g">>, <<"d", "a", "t", "a", "b", "a", "s", "e">>}) -> 3
           [] hits = {} /\ ~HasKey(data, {<<"a", "p", "i", "_", "k", "e", "y">>, <<"a", "p", "i", "-", "k", "e", "y">>, <<"c", "o", "n", "n", "e", "c", "t", "i", "o", "n", "_", "s", "t", "r", "i", "n", "g">>, <<"d", "a", "t", "a", "b", "a", "s", "e">>})
                /\ (HasKey(data, {<<"p", "r", "i", "v", "a", "t", "e", "_", "k", "e", "y">>})
                      \/ \E i \in DOMAIN data : contains(<<"s", "s", "h">>, lower(data[i]))) -> 2
           [] OTHER -> 1

\* a template recommended from the data, which has a private key field before
\* an API key field, the path matching no rule
C26_Witness ==
  /\ tool_call.op = "recommend_template"
  /\ tool_call.input.vault_path = <<"k", "v", "/", "m", "i", "s", "c">>
  /\ tool_call.input.data = <<<<"p", "r", "i", "v", "a", "t", "e", "_", "k", "e", "y">>, <<"A", "P", "I", "-", "K", "E", "Y">>>>
  /\ tool_call.output = ApiKeyTemplate

\* C27: the audit log only grows at its end: over every call of sync_secret,
\* batch_sync, get_sync_status and export_audit_log the log before the call
\* is a prefix of the log after it.
C27_AuditAppendOnly ==
  [][/\ Len(audit_log') >= Len(audit_log)
     /\ SubSeq(audit_log', 1, Len(audit_log)) = audit_log]_vars

\* a batch has added a second entry to the log a sync_secret call began
C27_Witness ==
  /\ Len(audit_log) = 2
  /\ sync_last.result.status = "success"
  /\ batch_last # NoBatchYet
  /\ Len(batch_last.results) = 2
  /\ batch_last.results[1].status = "failed"
  /\ batch_last.results[2].status = "success"

\* a migrate_batch call of either migrator has returned its report
BatchMigrated ==
  /\ tool_call.op \in {"vault_to_delinea.migrate_batch",
                       "delinea_to_vault.migrate_batch"}
  /\ ~tool_call.output.raised

\* the item a result is the result of
SourceOf(result) ==
  IF tool_call.op = "vault_to_delinea.migrate_batch" THEN result.source_path
  ELSE result.source_id

\* C28: the report migrate_batch returns has one result per item, in the
\* order of the items, a failed result for an item that failed, the results
\* of the items after it as well, and successful + failed = total_secrets =
\* the number of results.
C28_MigrateBatchReport ==
  BatchMigrated =>
    LET items == tool_call.input.items
        report == tool_call.output.report
    IN /\ Len(report.results) = Len(items)
       /\ \A i \in DOMAIN items :
            /\ SourceOf(report.results[i]) = items[i]
            /\ report.results[i].success =
                 (/\ items[i] \in tool_call.input.present
                  /\ tool_call.input.dry_run \/ tool_call.input.target_up)
       /\ report.total_secrets = Len(items)
       /\ report.successful + report.failed = report.total_secrets
       /\ report.successful =
            Cardinality({i \in DOMAIN report.results : report.results[i].success})

\* a report of two results, the first of an item that failed
C28_Witness ==
  /\ BatchMigrated
  /\ Len(tool_call.output.report.results) = 2
  /\ ~tool_call.output.report.results[1].success
  /\ tool_call.output.report.results[2].success
  /\ ~tool_call.input.dry_run
  /\ tool_call.output.report.failed = 1

\* C29: a setSecret step in which the updater of the target system answers
\* False is answered with another status code than 200, and leaves the
\* rotation short of the stage from which testSecret is in order.
C29_UpdaterFailureReported ==
  [][(SetSecret /\ target_updated' = "False") =>
       /\ last'.code # 200
       /\ rot'.stage # "setSecret"]_vars

\* C30: a bidirectional sync with policy use_newest, not a dry run, of a secret
\* that both stores hold returns neither skipped nor conflict, whatever dates
\* the two stores give for their copies.
C30_UseNewestAlwaysDecides ==
  [][\A n \in SyncedNames :
       (/\ Synced("bidirectional", "use_newest", FALSE)
        /\ BothPresent(n))
       =>
       sync_last'.result.status \notin {"skipped", "conflict"}]_vars

\* the outcome of the call just made is the one a sync_secret call of the given
\* direction, with the same policy and dry-run flag, has on the same stores
SameAsOneWay(n, direction) ==
  \E t \in CallTimes(CurrentSync) :
    LET out == sync_secret(CurrentSync, n, direction,
                           sync_last'.call.conflict_resolution,
                           sync_last'.call.dry_run, t)
    IN /\ sync_last'.result.status = out.result.status
       /\ sync_last'.writes = out.writes
       /\ vault_secrets' = out.vault
       /\ sync_aws' = out.aws
       /\ audit_log' = out.audit

\* C31: a bidirectional sync of a name neither store holds returns failed and
\* makes no write; of a name only one store holds it has the status, the writes
\* and the effect on the stores and the log of the one-directional sync from
\* that store, with the same policy and dry-run flag.
C31_BidirectionalDelegates ==
  [][\A n \in SyncedNames :
       (/\ sync_last'.call.direction = "bidirectional"
        /\ ~BothPresent(n))
       =>
       LET in_vault == check_vault_secret_exists(CurrentSync, n)
           in_aws == check_aws_secret_exists(CurrentSync, n)
       IN /\ (~in_vault /\ ~in_aws) =>
               /\ sync_last'.result.status = "failed"
               /\ sync_last'.writes = 0
               /\ vault_secrets' = vault_secrets
               /\ sync_aws' = sync_aws
          /\ (in_vault /\ ~in_aws) => SameAsOneWay(n, "vault_to_aws")
          /\ (in_aws /\ ~in_vault) => SameAsOneWay(n, "aws_to_vault")]_vars

\* a bidirectional sync, not a dry run, has copied a secret only AWS held to a
\* real Vault
C31_Witness ==
  /\ sync_last.call.direction = "bidirectional"
  /\ ~sync_last.call.dry_run
  /\ sync_last.result.direction = "aws_to_vault"
  /\ sync_last.result.status = "success"
  /\ sync_last.writes = 1
  /\ Len(audit_log) = 1
  /\ \E n \in SyncedNames :
       /\ vault_secrets[n] # NoSecret
       /\ vault_secrets[n].data = sync_aws[n].secret_value

\* C32: get_sync_status of a manager with a Vault client reports for each store
\* whether it holds the secret, reports synced exactly when both hold it with
\* the same payload, lists one conflict exactly when both hold it with
\* different payloads, and changes neither store nor the audit log.
C32_SyncStatusReportsStores ==
  [][GetSyncStatus =>
       \A n \in SyncedNames :
         (sync_status'.secret_name = n /\ vault_client # "none") =>
           LET in_vault == vault_secrets[n] # NoSecret
               in_aws == sync_aws[n] # NoSecret
               equal == /\ in_vault
                        /\ in_aws
                        /\ vault_secrets[n].data = sync_aws[n].secret_value
           IN /\ sync_status'.in_vault = in_vault
              /\ sync_status'.in_aws = in_aws
              /\ sync_status'.synced = equal
              /\ Len(sync_status'.conflicts) =
                   (IF in_vault /\ in_aws /\ ~equal THEN 1 ELSE 0)
              /\ vault_secrets' = vault_secrets
              /\ sync_aws' = sync_aws
              /\ audit_log' = audit_log]_vars

\* handle_aws_rotation_event has handled the event e with the given Step
EventHandled(step, e) ==
  CASE step = "createSecret" -> CreateSecretOf({e})
    [] step = "setSecret" -> SetSecretOf({e})
    [] step = "testSecret" -> TestSecretOf({e})
    [] step = "finishSecret" -> FinishSecretOf({e})
    [] OTHER -> UnknownStepOf({e})

\* C33: handle_aws_rotation_event answers every event with statusCode 200 or
\* 500; an answer of 200 names the step of the event; an event whose step is
\* none of the four, and a createSecret, setSecret or testSecret event whose
\* read of the store raises, is answered 500.
C33_EventAnswered200Or500 ==
  [][\A e \in Events, step \in EventSteps :
       (last'.op = step /\ last'.secret = e.secret /\ EventHandled(step, e)) =>
         /\ last'.code \in {200, 500}
         /\ last'.code = 200 => last'.op = step /\ step \in Steps
         /\ step \notin Steps => last'.code = 500
         /\ (/\ ~mock_mode
             /\ step \in {"createSecret", "setSecret", "testSecret"}
             /\ aws_get_raises(aws_secrets, e.secret_name))
            => last'.code = 500]_vars

\* a testSecret event for a secret the store holds, of a handler that is not a
\* mock, has been answered 500: the test of the new secret failed
C33_Witness ==
  /\ ~mock_mode
  /\ last.op = "testSecret"
  /\ last.code = 500
  /\ last.secret = <<"db">>
  /\ aws_secrets[<<"db">>] # NoSecret

\* the name a key that no rule matches is passed through under
Normalised(key) == title(replace_underscores(key))

\* the field of the output a key of the data goes to
DestinationOf(key) ==
  IF RuleFieldOf(key) # NoRule THEN RuleFieldOf(key) ELSE Normalised(key)

\* the items of the data whose key no rule matches, in the order of the data
Unmatched(data) == SelectSeq(data, LAMBDA item : RuleFieldOf(item.key) = NoRule)

\* the skipped list is the list of the keys no rule matches, in the order of
\* the data
SkippedAreUnmatched ==
  LET unmatched == Unmatched(tool_call.input)
      skipped == tool_call.output.skipped
  IN /\ Len(skipped) = Len(unmatched)
     /\ \A i \in DOMAIN skipped : skipped[i] = unmatched[i].key

\* C34 as stated: the skipped list of map_fields is the list of the keys of the
\* data that no rule matches, in the order of the data, and the output holds
\* each of them under its normalised name with its own value.
C34_UnmatchedPassedThrough ==
  tool_call.op = "map_fields" =>
    /\ SkippedAreUnmatched
    /\ \A i \in DOMAIN tool_call.input :
         LET item == tool_call.input[i]
         IN RuleFieldOf(item.key) = NoRule =>
              /\ Normalised(item.key) \in DOMAIN tool_call.output.mapped
              /\ tool_call.output.mapped[Normalised(item.key)] = str(item.value)

\* C34, amended: the skipped list of map_fields is the list of the keys of the
\* data that no rule matches, in the order of the data, and the output holds
\* the normalised name of each of them, with the value of the last key of the
\* data that goes to that name.
C34_UnmatchedPassedThroughLastWins ==
  tool_call.op = "map_fields" =>
    /\ SkippedAreUnmatched
    /\ \A i \in DOMAIN tool_call.input :
         LET data == tool_call.input
             name == Normalised(data[i].key)
             senders == {j \in DOMAIN data : DestinationOf(data[j].key) = name}
             latest == CHOOSE j \in senders : \A l \in senders : l <= j
         IN RuleFieldOf(data[i].key) = NoRule =>
              /\ name \in DOMAIN tool_call.output.mapped
              /\ tool_call.output.mapped[name] = str(data[latest].value)

\* data mapped with a key a rule matches and a key with an underscore that no
\* rule matches: "ssh_port" is skipped and passed through as "Ssh Port"
C34_Witness ==
  /\ tool_call.op = "map_fields"
  /\ Len(tool_call.input) = 2
  /\ tool_call.input[2].key = <<"s", "s", "h", "_", "p", "o", "r", "t">>
  /\ RuleFieldOf(tool_call.input[1].key) # NoRule
  /\ tool_call.output.skipped = <<tool_call.input[2].key>>
  /\ <<"S", "s", "h", " ", "P", "o", "r", "t">> \in DOMAIN tool_call.output.mapped

\* C35: the output of map_fields has one entry for each field the keys of the
\* data go to, and no other; the entry of a field has the value of the last, in
\* the order of the data, of the keys that go to the field; the entries are no
\* more than the keys of the data.
C35_CollisionsLastWins ==
  tool_call.op = "map_fields" =>
    LET data == tool_call.input
        mapped == tool_call.output.mapped
    IN /\ DOMAIN mapped = {DestinationOf(data[i].key) : i \in DOMAIN data}
       /\ Cardinality(DOMAIN mapped) <= Len(data)
       /\ \A i \in DOMAIN data :
            LET senders == {j \in DOMAIN data :
                              DestinationOf(data[j].key) = DestinationOf(data[i].key)}
                latest == CHOOSE j \in senders : \A l \in senders : l <= j
            IN mapped[DestinationOf(data[i].key)] = str(data[latest].value)

\* data mapped whose two keys, of different values, both go to the field
\* Password: the output has that one field, with the value of the second key
C35_Witness ==
  /\ tool_call.op = "map_fields"
  /\ Len(tool_call.input) = 2
  /\ tool_call.input[1].key # tool_call.input[2].key
  /\ tool_call.input[1].value # tool_call.input[2].value
  /\ DOMAIN tool_call.output.mapped = {<<"P", "a", "s", "s", "w", "o", "r", "d">>}
  /\ tool_call.output.mapped[<<"P", "a", "s", "s", "w", "o", "r", "d">>]
       = str(tool_call.input[2].value)

\* C36: every call on the handler leaves the results on record where they are,
\* each as it was recorded: the history before the call is a prefix of the
\* history after it.
C36_HistoryAppendOnly ==
  [][/\ Len(rotation_history') >= Len(rotation_history)
     /\ SubSeq(rotation_history', 1, Len(rotation_history)) = rotation_history]_vars

\* a rollback has been recorded after a failed rotation that was on record
C36_Witness ==
  /\ last.op = "rollback_rotation"
  /\ Len(rotation_history) = 2
  /\ rotation_history[1].status = "failed"
  /\ rotation_history[2].status = "rolled_back"

\* C37: the result a finishSecret event puts on record carries the name of the
\* secret the event's SecretId identifies: for an ARN, the text after
\* ':secret:' without its random suffix, hyphens of the name included.
C37_RecordedUnderSecretName ==
  (last.op = "finishSecret" /\ last.code = 200) =>
    /\ rotation_history # <<>>
    /\ rotation_history[Len(rotation_history)].secret_name = last.secret

C39_AuditCountsSuccesses ==
  [][sync_last'.call.direction \in Directions =>
       /\ IF sync_last'.result.status = "success"
            THEN /\ Len(audit_log') = Len(audit_log) + 1
                 /\ SubSeq(audit_log', 1, Len(audit_log)) = audit_log
                 /\ audit_log'[Len(audit_log')].secret_name
                      = sync_last'.result.secret_name
                 /\ audit_log'[Len(audit_log')].direction
                      = sync_last'.result.direction
            ELSE audit_log' = audit_log
       /\ \A i \in DOMAIN audit_log' : audit_log'[i].status = "success"]_vars

\* a sync from AWS has failed at its write to a Vault that answers no call,
\* and the log has no entry
C39_Witness ==
  /\ sync_last.call.direction = "aws_to_vault"
  /\ sync_last.result.status = "failed"
  /\ sync_last.result.message = VaultUnavailable
  /\ sync_last.writes = 1
  /\ audit_log = <<>>

====
